---------------------------- MODULE Spec2Model ----------------------------
(***************************************************************************)
(* Kachingko backend: the account verification state machine, the two     *)
(* in-memory OTP stores (SemaphoreService for SMS, BrevoService for        *)
(* email) and the request deduplication gate.                              *)
(*                                                                         *)
(* Time is the value of Date.now() in milliseconds.  Strings that the code *)
(* takes apart (phone numbers, codes) are sequences of one-character       *)
(* strings; e-mail addresses are plain strings.                            *)
(***************************************************************************)
EXTENDS Integers, Sequences, FiniteSets, TLC

VARIABLES
    now,            \* Date.now()
    otpCodes,       \* SemaphoreService.otpCodes : Map phone -> entry
    emailCodes,     \* BrevoService.emailCodes   : Map email -> entry
    accounts,       \* the rows of table "accounts"
    activeRequests, \* DeduplicationMiddleware.activeRequests : Map key -> entry
    requestCounts,  \* DeduplicationMiddleware.requestCounts  : Map key -> count
    inflight,       \* the HTTP requests that went through the gate and are not over
    creating,       \* createAccount calls suspended at an await
    finalizing,     \* verifyEmailChangeNewEmail calls (two saves) suspended at an await
    approvedPhones, \* history: phones for which verify-code returned approved
    smsSentAt,      \* history: phone -> time of its last successful send-verification
    channel,        \* SpecOtp: the service ("sms" or "email") whose store the run exercises
    calls,          \* Spec: the number of controller calls made so far
    lastOp,         \* the operation that ran last, with its arguments and result
    changeProof,    \* history: what has been proved since the last requestEmailChange
    tokens,         \* the tokens that loginWithPin has issued
    cleanupOtpCodes,   \* otpCodes of the SemaphoreService made for the cleanup interval
    cleanupEmailCodes, \* emailCodes of the BrevoService made for the cleanup interval
    verifying       \* the verify requests under way: what each has read and been answered

-----------------------------------------------------------------------------
(* Bounds of the model *)

MaxInflight == 3
MaxCreating == 2
MaxCalls == 6
MaxRejected == 2

(* Program constants *)

OtpTtlMs == 300000
MaxOtpAttempts == 3
SendOtpRetries == 3
SmsCodeMinLength == 4
SmsCodeMaxLength == 8
EmailCodeLength == 6
CooldownMs == 60000
DedupTtlMs == 60000
SweepPeriodMs == 300000
MaxEmailAttempts == 5

-----------------------------------------------------------------------------
(* Input domains *)

Digits == {"0", "1", "2", "3", "4", "5", "6", "7", "8", "9"}

Sub1 == <<"9", "1", "7", "1", "2", "3", "4", "5", "6", "7">>
Sub2 == <<"8", "1", "7", "1", "2", "3", "4", "5", "6", "7">>

Plus63(s) == <<"+", "6", "3">> \o s

Phone1 == Plus63(Sub1)
Phone2 == Plus63(Sub2)
Phones == {Phone1, Phone2}

Emails == {"a@x.com", "b@x.com"}

CodeA == <<"1", "1", "1", "1", "1", "1">>
CodeB == <<"2", "2", "2", "2", "2", "2">>
Codes == {CodeA, CodeB}

\* what a client may submit: the codes, a code with surrounding blanks, a short one
SubmittedCodes == Codes \cup {CodeA \o <<" ">>, <<"1", "1", "1">>}

\* the instants at which operations are seen to run: around the OTP lifetime,
\* around the cooldown and around the lifetime of a deduplication entry
OtpClock == {0, OtpTtlMs, OtpTtlMs + 1}
AcctClock == {0, CooldownMs \div 2, CooldownMs}

-----------------------------------------------------------------------------
(* Strings *)

IsBlank(c) == c \in {" ", "\t", "\n"}

RECURSIVE TrimLeft(_)
TrimLeft(s) == IF s # <<>> /\ IsBlank(Head(s)) THEN TrimLeft(Tail(s)) ELSE s

RECURSIVE TrimRight(_)
TrimRight(s) ==
    IF s # <<>> /\ IsBlank(s[Len(s)]) THEN TrimRight(SubSeq(s, 1, Len(s) - 1)) ELSE s

\* String.prototype.trim
Trim(s) == TrimRight(TrimLeft(s))

-----------------------------------------------------------------------------
(* A JavaScript Map is a function whose domain is the set of keys present *)

MapHas(m, k) == k \in DOMAIN m
MapSet(m, k, v) == (k :> v) @@ m
MapDelete(m, k) == [x \in (DOMAIN m) \ {k} |-> m[x]]
EmptyMap == [x \in {} |-> x]

Result(status, message) == [status |-> status, message |-> message]

-----------------------------------------------------------------------------
(* SemaphoreService: the SMS OTP store *)

\* variant: the entry outlives its expiresAt by a millisecond
_isCodeExpired_late(data, currentTime) == currentTime > data.expiresAt + 1

_isCodeExpired(data, currentTime) == currentTime > data.expiresAt

\* variant: one more wrong code is tolerated
_hasExceededAttempts_gt(data) == data.attempts > MaxOtpAttempts

_hasExceededAttempts(data) == data.attempts >= MaxOtpAttempts

_isCodeValid(data, inputCode) == data.code = Trim(inputCode)

\* variant: an entry that exists is kept when a new code is issued
_storeOTPCode_keep(store, phoneNumber, code, t) ==
    IF MapHas(store, phoneNumber)
    THEN store
    ELSE MapSet(store, phoneNumber,
                [code |-> code, expiresAt |-> t + OtpTtlMs, attempts |-> 0, createdAt |-> t])

_storeOTPCode(store, phoneNumber, code, t) ==
    MapSet(store, phoneNumber,
           [code |-> code, expiresAt |-> t + OtpTtlMs, attempts |-> 0, createdAt |-> t])

\* variant: the entry is left in the store
_removeOTPCode_keep(store, phoneNumber) == store

_removeOTPCode(store, phoneNumber) == MapDelete(store, phoneNumber)

_incrementAttempts(store, phoneNumber, data) ==
    MapSet(store, phoneNumber, [data EXCEPT !.attempts = data.attempts + 1])

\* _validateInput of verifyOTP: code is a string of 4 to 8 characters
SmsCodeShapeOk(code) == Len(code) >= SmsCodeMinLength /\ Len(code) <= SmsCodeMaxLength

\* variant: the code is compared before the attempts are looked at
verifyOTP_matchFirst(store, phoneNumber, code, t) ==
    IF ~SmsCodeShapeOk(code)
    THEN [store |-> store, res |-> Result("error", "Validation failed")]
    ELSE IF ~MapHas(store, phoneNumber)
    THEN [store |-> store,
          res |-> Result("expired", "No verification code found or expired")]
    ELSE IF _isCodeExpired(store[phoneNumber], t)
    THEN [store |-> _removeOTPCode(store, phoneNumber),
          res |-> Result("expired", "Verification code has expired")]
    ELSE IF _isCodeValid(store[phoneNumber], code)
    THEN [store |-> _removeOTPCode(store, phoneNumber),
          res |-> Result("approved", "Phone number verified successfully")]
    ELSE IF _hasExceededAttempts(store[phoneNumber])
    THEN [store |-> _removeOTPCode(store, phoneNumber),
          res |-> Result("failed", "Too many failed attempts")]
    ELSE [store |-> _incrementAttempts(store, phoneNumber, store[phoneNumber]),
          res |-> Result("failed", "Invalid verification code")]

\* verifyOTP(phoneNumber, code) at time t: the store afterwards and the result
verifyOTP(store, phoneNumber, code, t) ==
    IF ~SmsCodeShapeOk(code)
    THEN [store |-> store, res |-> Result("error", "Validation failed")]
    ELSE IF ~MapHas(store, phoneNumber)
    THEN [store |-> store,
          res |-> Result("expired", "No verification code found or expired")]
    ELSE IF _isCodeExpired(store[phoneNumber], t)
    THEN [store |-> _removeOTPCode(store, phoneNumber),
          res |-> Result("expired", "Verification code has expired")]
    ELSE IF _hasExceededAttempts(store[phoneNumber])
    THEN [store |-> _removeOTPCode(store, phoneNumber),
          res |-> Result("failed", "Too many failed attempts")]
    ELSE IF _isCodeValid(store[phoneNumber], code)
    THEN [store |-> _removeOTPCode(store, phoneNumber),
          res |-> Result("approved", "Phone number verified successfully")]
    ELSE [store |-> _incrementAttempts(store, phoneNumber, store[phoneNumber]),
          res |-> Result("failed", "Invalid verification code")]

\* sendOTP(phoneNumber): executeWithRetry makes up to 3 attempts; an attempt that
\* reaches the provider stores the code the provider generated.  `fails` is the
\* number of attempts that failed before one succeeded (3: all of them).
sendOTP(store, phoneNumber, code, fails, t) ==
    IF fails >= SendOtpRetries
    THEN [store |-> store, res |-> Result("error", "operation with retry failed")]
    ELSE [store |-> _storeOTPCode(store, phoneNumber, code, t),
          res |-> Result("pending", "sent")]

\* cleanupExpiredCodes(): the store afterwards and the number of entries removed
\* variant: the sweep drops every entry
cleanupExpiredCodes_all(store, t) ==
    [store |-> [k \in {} |-> store[k]], cleaned |-> Cardinality(DOMAIN store)]

cleanupExpiredCodes(store, t) ==
    LET expired == {k \in DOMAIN store : _isCodeExpired(store[k], t)}
    IN  [store |-> [k \in (DOMAIN store) \ expired |-> store[k]],
         cleaned |-> Cardinality(expired)]

-----------------------------------------------------------------------------
(* BrevoService: the e-mail OTP store *)

EmailCodeShapeOk(code) == Len(code) = EmailCodeLength

_storeEmailOTPCode(store, email, code, expiresAt, t) ==
    MapSet(store, email,
           [code |-> code, expiresAt |-> expiresAt, attempts |-> 0, createdAt |-> t])

\* variant: the answer is computed and the store is left as it was read
verifyEmailOTP_checkOnly(store, email, code, t) ==
    IF ~EmailCodeShapeOk(code)
    THEN [store |-> store, res |-> Result("error", "Validation failed")]
    ELSE IF ~MapHas(store, email)
    THEN [store |-> store,
          res |-> Result("expired", "No verification code found or expired")]
    ELSE IF _isCodeExpired(store[email], t)
    THEN [store |-> store,
          res |-> Result("expired", "Verification code has expired")]
    ELSE IF _hasExceededAttempts(store[email])
    THEN [store |-> store,
          res |-> Result("failed", "Too many failed attempts")]
    ELSE IF _isCodeValid(store[email], code)
    THEN [store |-> store,
          res |-> Result("approved", "Email verified successfully")]
    ELSE [store |-> store,
          res |-> Result("failed", "Invalid verification code")]

verifyEmailOTP(store, email, code, t) ==
    IF ~EmailCodeShapeOk(code)
    THEN [store |-> store, res |-> Result("error", "Validation failed")]
    ELSE IF ~MapHas(store, email)
    THEN [store |-> store,
          res |-> Result("expired", "No verification code found or expired")]
    ELSE IF _isCodeExpired(store[email], t)
    THEN [store |-> MapDelete(store, email),
          res |-> Result("expired", "Verification code has expired")]
    ELSE IF _hasExceededAttempts(store[email])
    THEN [store |-> MapDelete(store, email),
          res |-> Result("failed", "Too many failed attempts")]
    ELSE IF _isCodeValid(store[email], code)
    THEN [store |-> MapDelete(store, email),
          res |-> Result("approved", "Email verified successfully")]
    ELSE [store |-> _incrementAttempts(store, email, store[email]),
          res |-> Result("failed", "Invalid verification code")]

\* sendEmailOTP(email): every attempt generates a code and stores it BEFORE the
\* mail is handed to the transport, so the entry of the last attempt stays in the
\* store even when all attempts fail.  `code` is the code of the last attempt.
sendEmailOTP(store, email, code, fails, t) ==
    [store |-> _storeEmailOTPCode(store, email, code, t + OtpTtlMs, t),
     res |-> IF fails >= SendOtpRetries
             THEN Result("error", "operation with retry failed")
             ELSE Result("pending", "sent")]
-----------------------------------------------------------------------------
(* Account model: phone numbers *)

IsDigit(c) == c \in Digits

StartsWith(s, prefix) == Len(s) >= Len(prefix) /\ SubSeq(s, 1, Len(prefix)) = prefix

\* phoneNumber.replace(/\D/g, '')
DigitsOnly(s) == SelectSeq(s, IsDigit)

\* Account.normalizePhoneNumber; `cleaned` holds digits only, so it never starts
\* with '+63' and the last return of the source is not reached
normalizePhoneNumber(phoneNumber) ==
    LET cleaned == DigitsOnly(phoneNumber)
    IN  IF StartsWith(cleaned, <<"0">>) THEN <<"+", "6", "3">> \o Tail(cleaned)
        ELSE IF StartsWith(cleaned, <<"6", "3">>) THEN <<"+">> \o cleaned
        ELSE <<"+", "6", "3">> \o cleaned

\* the accepted forms of a subscriber number: +63X, 63X, 0X and X
RawForms(sub) == {Plus63(sub), <<"6", "3">> \o sub, <<"0">> \o sub, sub}

-----------------------------------------------------------------------------
(* Account model: rows, lookup, save *)

Null == "null"
NoDate == <<>>
Date(t) == <<t>>

\* Account.create: the column defaults of Account.init
NewAccount(id, phoneNumber, pin) ==
    [id |-> id,
     phoneNumber |-> phoneNumber,
     pin |-> pin,
     smsVerified |-> TRUE,
     email |-> Null,
     pendingEmail |-> Null,
     emailChangeVerificationStep |-> "none",
     emailVerified |-> FALSE,
     fullyVerified |-> FALSE,
     verificationAttempts |-> 0,
     emailVerificationAttempts |-> 0,
     lastVerificationSent |-> NoDate,
     lastEmailVerificationSent |-> NoDate,
     kycStatus |-> "not_submitted",
     kycSubmittedAt |-> NoDate]

\* Account.findByPhoneNumber: the rows whose phoneNumber is the normalized argument
findByPhoneNumber(rows, phoneNumber) ==
    {a \in rows : a.phoneNumber = normalizePhoneNumber(phoneNumber)}

\* Account.findByEmail
findByEmail(rows, email) == {a \in rows : a.email = email}

\* the afterUpdate hook: it runs on the instance after the UPDATE has been sent,
\* with _previousDataValues.fullyVerified still the value that was loaded
_updateFullyVerifiedStatus(account, wasFullyVerified) ==
    LET isNowFullyVerified == account.smsVerified /\ account.emailVerified
    IN  IF ~wasFullyVerified /\ isNowFullyVerified
        THEN [account EXCEPT !.fullyVerified = TRUE]
        ELSE IF wasFullyVerified /\ ~isNowFullyVerified
        THEN [account EXCEPT !.fullyVerified = FALSE]
        ELSE account

\* instance.save() of a loaded row: nothing happens when no field changed;
\* otherwise the UPDATE writes the instance's values and then afterUpdate runs,
\* changing the instance in memory only.  The rows afterwards and the instance.
save(rows, inst) ==
    LET old == CHOOSE a \in rows : a.id = inst.id
    IN  IF inst = old
        THEN [rows |-> rows, inst |-> inst]
        ELSE [rows |-> (rows \ {old}) \cup {inst},
              inst |-> _updateFullyVerifiedStatus(inst, old.fullyVerified)]

\* variant: the limit must have passed by more than a millisecond
_isWithinRateLimit_gt(lastSent, t) == (t - lastSent[1]) > CooldownMs

\* Account._isWithinRateLimit(lastSent, 1): true when the limit has passed
_isWithinRateLimit(lastSent, t) == (t - lastSent[1]) >= CooldownMs

canSendVerification(account, t) ==
    IF account.lastVerificationSent = NoDate THEN TRUE
    ELSE _isWithinRateLimit(account.lastVerificationSent, t)

canSendEmailVerification(account, t) ==
    IF account.lastEmailVerificationSent = NoDate THEN TRUE
    ELSE _isWithinRateLimit(account.lastEmailVerificationSent, t)

\* String.prototype.toLowerCase().trim() on the addresses of the model
LowerTrim(email) == IF email = "A@x.com" THEN "a@x.com" ELSE email

-----------------------------------------------------------------------------
(* AccountController: each method gives the persisted rows and the two OTP   *)
(* stores after the call, and the outcome of the call.  A method runs from   *)
(* its first line to its return or throw.                                    *)

Outcome(rows, sms, mail, status, message) ==
    [accounts |-> rows, otpCodes |-> sms, emailCodes |-> mail,
     status |-> status, message |-> message, data |-> Null]

\* an outcome whose response carries an address (newEmail)
WithData(outcome, data) == [outcome EXCEPT !.data = data]

Thrown(message) == Outcome(accounts, otpCodes, emailCodes, "error", message)

TheRow(found) == CHOOSE a \in found : TRUE

\* _validateRateLimit throws exactly when this is false
_validateRateLimit(found, t) ==
    ~(found # {} /\ ~canSendVerification(TheRow(found), t))

\* _updateVerificationTimestamp
_updateVerificationTimestamp(rows, found, t) ==
    IF found # {}
    THEN save(rows, [TheRow(found) EXCEPT !.lastVerificationSent = Date(t)]).rows
    ELSE rows

sendVerificationCode(phoneNumber, code, fails) ==
    LET normalizedPhone == normalizePhoneNumber(phoneNumber)
        found == findByPhoneNumber(accounts, normalizedPhone)
        sent == sendOTP(otpCodes, normalizedPhone, code, fails, now)
    IN  IF ~_validateRateLimit(found, now)
        THEN Thrown("Please wait before requesting another code")
        ELSE IF sent.res.status = "error"
        THEN Thrown(sent.res.message)
        ELSE Outcome(_updateVerificationTimestamp(accounts, found, now),
                     sent.store, emailCodes, "ok", "pending")

verifyCode(phoneNumber, code) ==
    LET normalizedPhone == normalizePhoneNumber(phoneNumber)
        verification == verifyOTP(otpCodes, normalizedPhone, code, now)
    IN  IF verification.res.status = "error"
        THEN Thrown(verification.res.message)
        ELSE Outcome(accounts, verification.store, emailCodes, "ok",
                     IF verification.res.status = "approved" THEN "verified"
                     ELSE "not verified")

\* _validateUniqueAccount throws exactly when this is false
_validateUniqueAccount(rows, phoneNumber) == findByPhoneNumber(rows, phoneNumber) = {}

\* the unique index on accounts.phoneNumber
UniqueViolation(rows, phoneNumber) == \E a \in rows : a.phoneNumber = phoneNumber

\* _createNewAccount -> Account.createAccount -> INSERT: the rows afterwards;
\* the unique index refuses a second row for the number
_createNewAccount(rows, phoneNumber, pin) ==
    LET normalized == normalizePhoneNumber(phoneNumber)
    IN  IF UniqueViolation(rows, normalized)
        THEN [created |-> FALSE, rows |-> rows]
        ELSE [created |-> TRUE,
              rows |-> rows \cup {NewAccount(Cardinality(rows) + 1, normalized, pin)}]

AlreadyExists == "Account already exists with this phone number"
\* the message of Sequelize's UniqueConstraintError
UniqueConstraintMessage == "Validation error"

createAccount(phoneNumber, pin) ==
    LET inserted == _createNewAccount(accounts, phoneNumber, pin)
    IN  IF ~_validateUniqueAccount(accounts, phoneNumber)
        THEN Thrown(AlreadyExists)
        ELSE IF ~inserted.created
        THEN Thrown(UniqueConstraintMessage)
        ELSE Outcome(inserted.rows, otpCodes, emailCodes, "ok", "created")

\* findOne without an order: what it may give, the empty set (null) when no
\* row matches and otherwise any one of the matching rows
findOne(found) == IF found = {} THEN {{}} ELSE {{a} : a \in found}

\* variant: a new address takes the SMS verification away as well
updateEmail_unverify(rows, account, newEmail, existingAccount) ==
    [ok |-> TRUE,
     rows |-> save(rows, [account EXCEPT !.email = LowerTrim(newEmail),
                                         !.emailVerified = FALSE,
                                         !.smsVerified = FALSE]).rows]

\* Account.updateEmail: the rows afterwards, or "in use"; `existingAccount` is
\* what findByEmail gave for the normalized address
updateEmail(rows, account, newEmail, existingAccount) ==
    LET normalizedEmail == LowerTrim(newEmail)
    IN  IF \E a \in existingAccount : a.id # account.id
        THEN [ok |-> FALSE, rows |-> rows]
        ELSE [ok |-> TRUE,
              rows |-> save(rows, [account EXCEPT
                                     !.email = normalizedEmail,
                                     !.emailVerified = FALSE,
                                     !.emailVerificationAttempts = 0,
                                     !.lastEmailVerificationSent = NoDate]).rows]

addEmail(phoneNumber, email, existingAccount) ==
    LET found == findByPhoneNumber(accounts, phoneNumber)
    IN  IF found = {} THEN Thrown("Account not found")
        ELSE LET upd == updateEmail(accounts, TheRow(found), email, existingAccount)
             IN  IF ~upd.ok
                 THEN Thrown("Email address is already in use by another account")
                 ELSE Outcome(upd.rows, otpCodes, emailCodes, "ok", "email added")

\* _validateEmailForVerification throws exactly when this is false
_validateEmailForVerification(account) ==
    account.email # Null /\ ~account.emailVerified

\* _validateEmailRateLimit throws exactly when this is false
_validateEmailRateLimit(account, t) == canSendEmailVerification(account, t)

\* _updateEmailVerificationTimestamp
_updateEmailVerificationTimestamp(rows, account, t) ==
    save(rows, [account EXCEPT !.lastEmailVerificationSent = Date(t)]).rows

sendEmailVerification(phoneNumber, code, fails) ==
    LET found == findByPhoneNumber(accounts, phoneNumber)
        account == TheRow(found)
        sent == sendEmailOTP(emailCodes, account.email, code, fails, now)
    IN  IF found = {} THEN Thrown("Account not found")
        ELSE IF ~_validateEmailForVerification(account)
        THEN Thrown("No email address or email already verified")
        ELSE IF ~_validateEmailRateLimit(account, now)
        THEN Thrown("Please wait before requesting another email verification code")
        ELSE IF sent.res.status = "error"
        THEN Outcome(accounts, otpCodes, sent.store, "error", sent.res.message)
        ELSE Outcome(_updateEmailVerificationTimestamp(accounts, account, now),
                     otpCodes, sent.store, "ok", "pending")

\* variant: the counter is not looked at
_validateEmailAttempts_off(account) == TRUE

\* variant: the sixth attempt is still let through
_validateEmailAttempts_gt(account) == account.emailVerificationAttempts <= MaxEmailAttempts

\* _validateEmailAttempts throws exactly when this is false
_validateEmailAttempts(account) == account.emailVerificationAttempts < MaxEmailAttempts

\* Account.markEmailAsVerified
markEmailAsVerified(rows, account) ==
    save(rows, [account EXCEPT !.emailVerified = TRUE,
                               !.emailVerificationAttempts = 0,
                               !.lastEmailVerificationSent = NoDate]).rows

\* _handleFailedEmailVerification: the counter is saved before the throw
_handleFailedEmailVerification(rows, account) ==
    save(rows, [account EXCEPT
                  !.emailVerificationAttempts = account.emailVerificationAttempts + 1]).rows

verifyEmail(phoneNumber, code) ==
    LET found == findByPhoneNumber(accounts, phoneNumber)
        account == TheRow(found)
        verification == verifyEmailOTP(emailCodes, account.email, code, now)
    IN  IF found = {} THEN Thrown("Account not found")
        ELSE IF ~_validateEmailForVerification(account)
        THEN Thrown("No email address or email already verified")
        ELSE IF ~_validateEmailAttempts(account)
        THEN Thrown("Too many email verification attempts. Please request a new code.")
        ELSE IF verification.res.status = "error"
        THEN Thrown(verification.res.message)
        ELSE IF verification.res.status = "approved"
        THEN Outcome(markEmailAsVerified(accounts, account),
                     otpCodes, verification.store, "ok", "verified")
        ELSE Outcome(_handleFailedEmailVerification(accounts, account),
                     otpCodes, verification.store, "error", verification.res.message)

\* _validateEmailChange throws exactly when this is false
_validateEmailChange(account, newEmail) == account.email # newEmail

\* variant: the request goes straight to the email step
requestEmailChange_skipSms(phoneNumber, newEmail) ==
    LET found == findByPhoneNumber(accounts, phoneNumber)
        account == TheRow(found)
    IN  IF found = {} THEN Thrown("Account not found")
        ELSE IF ~_validateEmailChange(account, newEmail)
        THEN Thrown("New email cannot be the same as current email")
        ELSE Outcome(save(accounts, [account EXCEPT
                                       !.pendingEmail = newEmail,
                                       !.emailChangeVerificationStep = "email_pending"]).rows,
                     otpCodes, emailCodes, "ok", "email change requested")

requestEmailChange(phoneNumber, newEmail) ==
    LET found == findByPhoneNumber(accounts, phoneNumber)
        account == TheRow(found)
    IN  IF found = {} THEN Thrown("Account not found")
        ELSE IF ~_validateEmailChange(account, newEmail)
        THEN Thrown("New email cannot be the same as current email")
        ELSE Outcome(save(accounts, [account EXCEPT
                                       !.pendingEmail = newEmail,
                                       !.emailChangeVerificationStep = "sms_pending"]).rows,
                     otpCodes, emailCodes, "ok", "email change requested")

\* variant: the step is not looked at
_validateEmailChangeStep_any(account, expectedStep) == TRUE

\* _validateEmailChangeStep throws exactly when this is false
_validateEmailChangeStep(account, expectedStep) ==
    account.emailChangeVerificationStep = expectedStep

\* _progressEmailChangeToEmailStep: save, sendEmailOTP, save.  The second save
\* runs on the instance the first afterUpdate hook has changed, and is not
\* reached when sendEmailOTP throws.
\* variant: the step is saved and no code is sent to the new address
_progressEmailChangeToEmailStep_noSend(rows, mail, account, code, fails, t) ==
    [ok |-> TRUE,
     rows |-> save(rows, [account EXCEPT !.emailChangeVerificationStep = "email_pending"]).rows,
     mail |-> mail]

_progressEmailChangeToEmailStep(rows, mail, account, code, fails, t) ==
    LET first == save(rows, [account EXCEPT !.emailChangeVerificationStep = "email_pending"])
        sent == sendEmailOTP(mail, account.pendingEmail, code, fails, t)
        second == save(first.rows, [first.inst EXCEPT !.lastEmailVerificationSent = Date(t)])
    IN  IF sent.res.status = "error"
        THEN [ok |-> FALSE, rows |-> first.rows, mail |-> sent.store]
        ELSE [ok |-> TRUE, rows |-> second.rows, mail |-> sent.store]

verifyEmailChangeSms(phoneNumber, code, mailCode, fails) ==
    LET found == findByPhoneNumber(accounts, phoneNumber)
        account == TheRow(found)
        verification == verifyOTP(otpCodes, phoneNumber, code, now)
        progress == _progressEmailChangeToEmailStep(accounts, emailCodes, account,
                                                    mailCode, fails, now)
    IN  IF found = {} THEN Thrown("Account not found")
        ELSE IF ~_validateEmailChangeStep(account, "sms_pending")
        THEN Thrown("No email change request pending SMS verification")
        ELSE IF verification.res.status = "error"
        THEN Thrown(verification.res.message)
        ELSE IF verification.res.status # "approved"
        THEN Outcome(accounts, verification.store, emailCodes, "error",
                     "Invalid SMS verification code")
        ELSE Outcome(progress.rows, verification.store, progress.mail,
                     IF progress.ok THEN "ok" ELSE "error",
                     IF progress.ok THEN "SMS verified" ELSE "operation with retry failed")

\* variant: only the value 'completed' counts as done
_isEmailChangeCompleted_strict(account) ==
    account.emailChangeVerificationStep = "completed"

\* _isEmailChangeCompleted
_isEmailChangeCompleted(account) ==
    account.emailChangeVerificationStep = "completed"
        \/ account.emailChangeVerificationStep = "none"

\* _getCompletedEmailChangeResponse
_getCompletedEmailChangeResponse(account) ==
    WithData(Outcome(accounts, otpCodes, emailCodes, "ok", "Email change already completed!"),
             account.email)

\* variant: the completion keeps the pending address
_completeEmailChange_keepPending(rows, account) ==
    save(rows, [account EXCEPT !.email = account.pendingEmail,
                               !.emailVerified = TRUE,
                               !.emailChangeVerificationStep = "none",
                               !.emailVerificationAttempts = 0]).rows

\* _completeEmailChange
_completeEmailChange(rows, account) ==
    save(rows, [account EXCEPT !.email = account.pendingEmail,
                               !.pendingEmail = Null,
                               !.emailVerified = TRUE,
                               !.emailChangeVerificationStep = "none",
                               !.emailVerificationAttempts = 0]).rows

verifyEmailChangeNewEmail(phoneNumber, code) ==
    LET found == findByPhoneNumber(accounts, phoneNumber)
        account == TheRow(found)
        verification == verifyEmailOTP(emailCodes, account.pendingEmail, code, now)
    IN  IF found = {} THEN Thrown("Account not found")
        ELSE IF _isEmailChangeCompleted(account)
        THEN _getCompletedEmailChangeResponse(account)
        ELSE IF ~_validateEmailChangeStep(account, "email_pending")
        THEN Thrown("Email verification not ready. Complete SMS verification first.")
        ELSE IF verification.res.status = "error"
        THEN Thrown(verification.res.message)
        ELSE IF verification.res.status # "approved"
        THEN Outcome(accounts, otpCodes, verification.store, "error", verification.res.message)
        ELSE WithData(Outcome(_completeEmailChange(accounts, account),
                              otpCodes, verification.store, "ok", "Email changed successfully!"),
                      account.pendingEmail)

-----------------------------------------------------------------------------
(* State *)

vars == <<now, otpCodes, emailCodes, accounts, activeRequests, requestCounts,
          inflight, creating, finalizing, approvedPhones, smsSentAt, channel, calls, lastOp,
          changeProof, tokens, cleanupOtpCodes, cleanupEmailCodes, verifying>>

gateVars == <<activeRequests, requestCounts, inflight>>
historyVars == <<approvedPhones, smsSentAt, changeProof>>
sweepVars == <<cleanupOtpCodes, cleanupEmailCodes>>

NoOp == [op |-> "none"]

Init ==
    /\ now = 0
    /\ otpCodes = EmptyMap
    /\ emailCodes = EmptyMap
    /\ accounts = {}
    /\ activeRequests = EmptyMap
    /\ requestCounts = EmptyMap
    /\ inflight = {}
    /\ creating = {}
    /\ approvedPhones = {}
    /\ smsSentAt = EmptyMap
    /\ channel = "sms"
    /\ lastOp = NoOp
    /\ calls = 0
    /\ changeProof = "none"
    /\ finalizing = {}
    /\ tokens = {}
    /\ cleanupOtpCodes = EmptyMap
    /\ cleanupEmailCodes = EmptyMap
    /\ verifying = {}

\* the clock moves on to a later instant of `clock`
Tick(clock) ==
    /\ \E t \in clock : t > now /\ now' = t
    /\ lastOp' = [op |-> "tick"]
    /\ UNCHANGED <<otpCodes, emailCodes, accounts, gateVars, creating, finalizing, historyVars,
                   channel, calls, tokens, sweepVars, verifying>>

-----------------------------------------------------------------------------
(* The OTP stores on their own: issue, verify, sweep, passage of time.  The   *)
(* two services share no state; a run exercises the store of one of them.    *)

InitOtp ==
    /\ Init!1 /\ Init!2 /\ Init!3 /\ Init!4 /\ Init!5 /\ Init!6 /\ Init!7 /\ Init!8
    /\ Init!9 /\ Init!10 /\ Init!12 /\ Init!13 /\ Init!14 /\ Init!15 /\ Init!16
    /\ Init!17 /\ Init!18 /\ Init!19
    /\ channel \in {"sms", "email"}

otpFrame == <<now, accounts, gateVars, creating, finalizing, historyVars, channel, calls,
             tokens, sweepVars, verifying>>

SmsSend(phoneNumber, code, fails) ==
    LET r == sendOTP(otpCodes, phoneNumber, code, fails, now)
    IN  /\ channel = "sms"
        /\ otpCodes' = r.store
        /\ lastOp' = [op |-> "sendOTP", to |-> phoneNumber, code |-> code, res |-> r.res,
                       replaced |-> MapHas(otpCodes, phoneNumber)]
        /\ UNCHANGED <<emailCodes, otpFrame>>

SmsVerify(phoneNumber, code) ==
    LET r == verifyOTP(otpCodes, phoneNumber, code, now)
    IN  /\ channel = "sms"
        /\ otpCodes' = r.store
        /\ lastOp' = [op |-> "verifyOTP", to |-> phoneNumber, code |-> code, res |-> r.res,
                      correct |-> MapHas(otpCodes, phoneNumber)
                                     /\ _isCodeValid(otpCodes[phoneNumber], code)]
        /\ UNCHANGED <<emailCodes, otpFrame>>

SmsCleanup ==
    LET r == cleanupExpiredCodes(otpCodes, now)
    IN  /\ channel = "sms"
        /\ otpCodes' = r.store
        /\ lastOp' = [op |-> "cleanupExpiredCodes", cleaned |-> r.cleaned]
        /\ UNCHANGED <<emailCodes, otpFrame>>

EmailSend(email, code, fails) ==
    LET r == sendEmailOTP(emailCodes, email, code, fails, now)
    IN  /\ channel = "email"
        /\ emailCodes' = r.store
        /\ lastOp' = [op |-> "sendOTP", to |-> email, code |-> code, res |-> r.res,
                       replaced |-> MapHas(emailCodes, email)]
        /\ UNCHANGED <<otpCodes, otpFrame>>

EmailVerify(email, code) ==
    LET r == verifyEmailOTP(emailCodes, email, code, now)
    IN  /\ channel = "email"
        /\ emailCodes' = r.store
        /\ lastOp' = [op |-> "verifyOTP", to |-> email, code |-> code, res |-> r.res,
                      correct |-> MapHas(emailCodes, email)
                                     /\ _isCodeValid(emailCodes[email], code)]
        /\ UNCHANGED <<otpCodes, otpFrame>>

EmailCleanup ==
    LET r == cleanupExpiredCodes(emailCodes, now)
    IN  /\ channel = "email"
        /\ emailCodes' = r.store
        /\ lastOp' = [op |-> "cleanupExpiredCodes", cleaned |-> r.cleaned]
        /\ UNCHANGED <<otpCodes, otpFrame>>

OtpNext ==
    \/ Tick(OtpClock)
    \/ \E p \in Phones, c \in Codes, f \in 0..SendOtpRetries : SmsSend(p, c, f)
    \/ \E p \in Phones, c \in SubmittedCodes : SmsVerify(p, c)
    \/ SmsCleanup
    \/ \E e \in Emails, c \in Codes, f \in 0..SendOtpRetries : EmailSend(e, c, f)
    \/ \E e \in Emails, c \in SubmittedCodes : EmailVerify(e, c)
    \/ EmailCleanup

SpecOtp == InitOtp /\ [][OtpNext]_vars


-----------------------------------------------------------------------------
(* The account state machine: the methods of AccountController, one call at  *)
(* a time, on the account of one subscriber.                                 *)

\* the forms in which the subscriber's number reaches the public routes
AcctRawPhones == {Plus63(Sub1), <<"0">> \o Sub1}

\* the number in the token of the authenticated routes
AcctPhone == Phone1

AcctPin == <<"1", "2", "3", "4", "5", "6">>

\* the provider's code, and what a client may submit: that code or another
AcctCodes == {CodeA}
AcctSubmitted == {CodeA, CodeB}

\* a call has run: its persisted rows, its stores, its outcome
Commit(op, phoneNumber, r) ==
    /\ calls < MaxCalls
    /\ calls' = calls + 1
    /\ accounts' = r.accounts
    /\ otpCodes' = r.otpCodes
    /\ emailCodes' = r.emailCodes
    /\ lastOp' = [op |-> op, phone |-> normalizePhoneNumber(phoneNumber),
                  status |-> r.status, message |-> r.message, data |-> r.data]

acctFrame == <<now, gateVars, creating, finalizing, channel, tokens, sweepVars, verifying>>

\* the store holds for `email` a code that was issued by the call now running
IssuedNow(store, email) ==
    /\ MapHas(store, email)
    /\ store[email].createdAt = now
    /\ store[email].attempts = 0

SendVerificationCode(phoneNumber, code, fails) ==
    LET r == sendVerificationCode(phoneNumber, code, fails)
    IN  /\ Commit("sendVerificationCode", phoneNumber, r)
        /\ smsSentAt' = IF r.status = "ok"
                        THEN MapSet(smsSentAt, normalizePhoneNumber(phoneNumber), now)
                        ELSE smsSentAt
        /\ UNCHANGED <<approvedPhones, changeProof, acctFrame>>

VerifyCode(phoneNumber, code) ==
    LET r == verifyCode(phoneNumber, code)
    IN  /\ Commit("verifyCode", phoneNumber, r)
        /\ approvedPhones' = IF r.status = "ok" /\ r.message = "verified"
                             THEN approvedPhones \cup {normalizePhoneNumber(phoneNumber)}
                             ELSE approvedPhones
        /\ changeProof' = IF r.status = "ok" /\ r.message = "verified"
                               /\ changeProof = "requested"
                          THEN "sms"
                          ELSE changeProof
        /\ UNCHANGED <<smsSentAt, acctFrame>>

CreateAccount(phoneNumber, pin) ==
    /\ Commit("createAccount", phoneNumber, createAccount(phoneNumber, pin))
    /\ UNCHANGED <<historyVars, acctFrame>>

AddEmail(phoneNumber, email) ==
    /\ \E existingAccount \in findOne(findByEmail(accounts, LowerTrim(email))) :
          Commit("addEmail", phoneNumber, addEmail(phoneNumber, email, existingAccount))
    /\ UNCHANGED <<historyVars, acctFrame>>

SendEmailVerification(phoneNumber, code, fails) ==
    LET r == sendEmailVerification(phoneNumber, code, fails)
    IN  /\ Commit("sendEmailVerification", phoneNumber, r)
        /\ changeProof' = IF changeProof = "sms"
                               /\ \E a \in accounts : IssuedNow(r.emailCodes, a.pendingEmail)
                          THEN "issued"
                          ELSE changeProof
        /\ UNCHANGED <<approvedPhones, smsSentAt, acctFrame>>

VerifyEmail(phoneNumber, code) ==
    /\ Commit("verifyEmail", phoneNumber, verifyEmail(phoneNumber, code))
    /\ UNCHANGED <<historyVars, acctFrame>>

RequestEmailChange(phoneNumber, newEmail) ==
    LET r == requestEmailChange(phoneNumber, newEmail)
    IN  /\ Commit("requestEmailChange", phoneNumber, r)
        /\ changeProof' = IF r.status = "ok" THEN "requested" ELSE changeProof
        /\ UNCHANGED <<approvedPhones, smsSentAt, acctFrame>>

VerifyEmailChangeSms(phoneNumber, code, mailCode, fails) ==
    LET r == verifyEmailChangeSms(phoneNumber, code, mailCode, fails)
        smsApproved == /\ r.otpCodes # otpCodes
                       /\ ~MapHas(r.otpCodes, phoneNumber)
                       /\ r.accounts # accounts
    IN  /\ Commit("verifyEmailChangeSms", phoneNumber, r)
        /\ approvedPhones' = IF smsApproved
                             THEN approvedPhones \cup {phoneNumber}
                             ELSE approvedPhones
        /\ changeProof' =
              IF smsApproved /\ changeProof \in {"requested", "sms"}
              THEN IF \E a \in accounts : IssuedNow(r.emailCodes, a.pendingEmail)
                   THEN "issued"
                   ELSE "sms"
              ELSE changeProof
        /\ UNCHANGED <<smsSentAt, acctFrame>>

VerifyEmailChangeNewEmail(phoneNumber, code) ==
    LET r == verifyEmailChangeNewEmail(phoneNumber, code)
    IN  /\ Commit("verifyEmailChangeNewEmail", phoneNumber, r)
        /\ changeProof' = IF r.message = "Email changed successfully!"
                          THEN "none"
                          ELSE changeProof
        /\ UNCHANGED <<approvedPhones, smsSentAt, acctFrame>>

Next ==
    \/ Tick(AcctClock)
    \/ \E p \in AcctRawPhones, c \in AcctCodes, f \in {0, SendOtpRetries} :
          SendVerificationCode(p, c, f)
    \/ \E p \in AcctRawPhones, c \in AcctSubmitted : VerifyCode(p, c)
    \/ \E p \in AcctRawPhones : CreateAccount(p, AcctPin)
    \/ \E e \in Emails : AddEmail(AcctPhone, e)
    \/ \E c \in AcctCodes, f \in {0, SendOtpRetries} : SendEmailVerification(AcctPhone, c, f)
    \/ \E c \in AcctSubmitted : VerifyEmail(AcctPhone, c)
    \/ \E e \in Emails : RequestEmailChange(AcctPhone, e)
    \/ \E c \in AcctSubmitted, m \in AcctCodes, f \in {0, SendOtpRetries} :
          VerifyEmailChangeSms(AcctPhone, c, m, f)
    \/ \E c \in AcctSubmitted : VerifyEmailChangeNewEmail(AcctPhone, c)

Spec == Init /\ [][Next]_vars

-----------------------------------------------------------------------------
(* createAccount calls that overlap.  A call suspends at its two awaits: the *)
(* lookup of _validateUniqueAccount and the INSERT of _createNewAccount.     *)

CreatePhones == RawForms(Sub1) \cup {Plus63(Sub2), <<"0">> \o Sub2}

\* AccountRoutes.createAccount: the HTTP status for a thrown message
createAccountStatus(message) == IF message = AlreadyExists THEN 409 ELSE 400

createFrame == <<now, otpCodes, emailCodes, gateVars, finalizing, historyVars, channel, calls,
                tokens, sweepVars, verifying>>

\* a call starts and suspends at the lookup
CreateBegin(phoneNumber) ==
    LET free == (1 .. MaxCreating) \ {c.id : c \in creating}
    IN  /\ free # {}
        /\ creating' = creating \cup {[id |-> CHOOSE n \in free : TRUE,
                                       phoneNumber |-> phoneNumber, pc |-> "lookup"]}
        /\ lastOp' = [op |-> "begin", phone |-> normalizePhoneNumber(phoneNumber)]
        /\ UNCHANGED <<accounts, createFrame>>

\* the lookup returns: the call throws, or goes on to the INSERT
CreateLookup(id) ==
    \E c \in creating :
        /\ c.id = id
        /\ c.pc = "lookup"
        /\ IF _validateUniqueAccount(accounts, c.phoneNumber)
           THEN /\ creating' = (creating \ {c}) \cup {[c EXCEPT !.pc = "insert"]}
                /\ lastOp' = [op |-> "lookup", phone |-> normalizePhoneNumber(c.phoneNumber)]
           ELSE /\ creating' = creating \ {c}
                /\ lastOp' = [op |-> "createAccount",
                              phone |-> normalizePhoneNumber(c.phoneNumber),
                              status |-> createAccountStatus(AlreadyExists),
                              message |-> AlreadyExists]
        /\ UNCHANGED <<accounts, createFrame>>

\* the INSERT returns: the call answers 201, or throws the index's error
CreateInsert(id) ==
    \E c \in creating :
        LET inserted == _createNewAccount(accounts, c.phoneNumber, AcctPin)
        IN  /\ c.id = id
            /\ c.pc = "insert"
            /\ creating' = creating \ {c}
            /\ accounts' = inserted.rows
            /\ lastOp' = IF inserted.created
                         THEN [op |-> "createAccount",
                               phone |-> normalizePhoneNumber(c.phoneNumber),
                               status |-> 201, message |-> "Account created successfully"]
                         ELSE [op |-> "createAccount",
                               phone |-> normalizePhoneNumber(c.phoneNumber),
                               status |-> createAccountStatus(UniqueConstraintMessage),
                               message |-> UniqueConstraintMessage]
            /\ UNCHANGED createFrame

CreateNext ==
    \/ \E p \in CreatePhones : CreateBegin(p)
    \/ \E id \in 1 .. MaxCreating : CreateLookup(id)
    \/ \E id \in 1 .. MaxCreating : CreateInsert(id)

SpecCreate == Init /\ [][CreateNext]_vars

-----------------------------------------------------------------------------
(* The deduplication gate: DeduplicationMiddleware in front of a route.  A   *)
(* request arrives and is rejected or admitted; an admitted request is in    *)
(* flight until its response emits finish/close/error.                       *)

DedupKeys == {"send-sms-+639171234567", "send-email-verification-+639171234567"}

DedupClock == {0, DedupTtlMs, DedupTtlMs + 1, SweepPeriodMs}

Max(a, b) == IF a >= b THEN a ELSE b

\* Math.ceil(ms / 1000)
CeilSeconds(ms) == IF ms >= 0 THEN (ms + 999) \div 1000 ELSE -((-ms) \div 1000)

_isRequestExpired_never(requestData, t) == FALSE

_isRequestExpired(requestData, t) == t > requestData.expiresAt

_removeRequest(gate, key) ==
    [activeRequests |-> MapDelete(gate.activeRequests, key),
     requestCounts |-> MapDelete(gate.requestCounts, key)]

\* variant: counting a retry also releases the key
_incrementRetryCount_release(gate, key) ==
    [activeRequests |-> MapDelete(gate.activeRequests, key),
     requestCounts |-> MapSet(gate.requestCounts, key,
                              (IF MapHas(gate.requestCounts, key)
                               THEN gate.requestCounts[key] ELSE 0) + 1)]

_incrementRetryCount(gate, key) ==
    LET count == IF MapHas(gate.requestCounts, key) THEN gate.requestCounts[key] ELSE 0
    IN  [gate EXCEPT !.requestCounts = MapSet(gate.requestCounts, key, count + 1)]

\* the check and what it does to the maps
_isDuplicateRequest(gate, key, t) ==
    IF ~MapHas(gate.activeRequests, key)
    THEN [duplicate |-> FALSE, gate |-> gate]
    ELSE IF _isRequestExpired(gate.activeRequests[key], t)
    THEN [duplicate |-> FALSE, gate |-> _removeRequest(gate, key)]
    ELSE [duplicate |-> TRUE, gate |-> _incrementRetryCount(gate, key)]

_registerRequest(gate, key, ttl, t) ==
    [gate EXCEPT !.activeRequests =
        MapSet(gate.activeRequests, key, [timestamp |-> t, expiresAt |-> t + ttl])]

_getRetryAfter(gate, key, t) ==
    IF ~MapHas(gate.activeRequests, key)
    THEN 0
    ELSE Max(0, CeilSeconds(gate.activeRequests[key].expiresAt - t))

_handleDuplicateRequest(gate, key, t) ==
    [status |-> 429,
     retryAfter |-> _getRetryAfter(gate, key, t),
     attemptCount |-> IF MapHas(gate.requestCounts, key) THEN gate.requestCounts[key] ELSE 0]

\* the middleware function: the maps afterwards and the response, if any
deduplicate(gate, key, t) ==
    LET chk == _isDuplicateRequest(gate, key, t)
    IN  IF chk.duplicate
        THEN [gate |-> chk.gate, admitted |-> FALSE,
              response |-> _handleDuplicateRequest(chk.gate, key, t)]
        ELSE [gate |-> _registerRequest(chk.gate, key, DedupTtlMs, t), admitted |-> TRUE,
              response |-> "next"]

_cleanupExpiredRequests(gate, t) ==
    LET expired == {k \in DOMAIN gate.activeRequests : t > gate.activeRequests[k].expiresAt}
    IN  [activeRequests |-> [k \in DOMAIN gate.activeRequests \ expired |-> gate.activeRequests[k]],
         requestCounts |-> [k \in DOMAIN gate.requestCounts \ expired |-> gate.requestCounts[k]]]

Gate == [activeRequests |-> activeRequests, requestCounts |-> requestCounts]

SetGate(gate) ==
    /\ activeRequests' = gate.activeRequests
    /\ requestCounts' = gate.requestCounts

dedupFrame == <<now, otpCodes, emailCodes, accounts, creating, finalizing, historyVars, channel,
               calls, tokens, sweepVars, verifying>>

\* a request with fingerprint `key` reaches the middleware
Arrive(key) ==
    LET d == deduplicate(Gate, key, now)
        free == (1 .. MaxInflight) \ {r.id : r \in inflight}
    IN  /\ d.admitted => free # {}
        /\ ~d.admitted => d.response.attemptCount <= MaxRejected
        /\ SetGate(d.gate)
        /\ inflight' = IF d.admitted
                       THEN inflight \cup {[id |-> CHOOSE n \in free : TRUE, key |-> key,
                                            expiresAt |-> now + DedupTtlMs]}
                       ELSE inflight
        /\ lastOp' = [op |-> "deduplicate", key |-> key, admitted |-> d.admitted,
                      response |-> d.response]
        /\ UNCHANGED dedupFrame

\* the response of an admitted request is over: its cleanup listener runs
Complete(id) ==
    \E r \in inflight :
        /\ r.id = id
        /\ SetGate(_removeRequest(Gate, r.key))
        /\ inflight' = inflight \ {r}
        /\ lastOp' = [op |-> "cleanupRequest", key |-> r.key]
        /\ UNCHANGED dedupFrame

\* the interval timer of _startCleanupInterval fires
DedupSweep ==
    /\ now > 0
    /\ now % SweepPeriodMs = 0
    /\ SetGate(_cleanupExpiredRequests(Gate, now))
    /\ lastOp' = [op |-> "_cleanupExpiredRequests"]
    /\ UNCHANGED <<inflight, dedupFrame>>

DedupNext ==
    \/ Tick(DedupClock)
    \/ \E k \in DedupKeys : Arrive(k)
    \/ \E id \in 1 .. MaxInflight : Complete(id)
    \/ DedupSweep

SpecDedup == Init /\ [][DedupNext]_vars

-----------------------------------------------------------------------------
(* The cooldown of the two verification channels, on its own: an account    *)
(* whose last sends were at some instants is asked at some later instant.   *)

\* Account.getRemainingCooldown(type): seconds until the next send is allowed
getRemainingCooldown(account, type, t) ==
    LET lastSent == IF type = "email" THEN account.lastEmailVerificationSent
                    ELSE account.lastVerificationSent
    IN  IF lastSent = NoDate
        THEN 0
        ELSE Max(0, CeilSeconds(CooldownMs - (t - lastSent[1])))

\* the instants of the last sends, and of the question
CooldownTimes == {0, 1, 1000, 30000, 59999, 60000, 60001, 61000, 120000}

InitCooldown ==
    /\ Init!2 /\ Init!3 /\ Init!5 /\ Init!6 /\ Init!7 /\ Init!8
    /\ Init!9 /\ Init!10 /\ Init!11 /\ Init!12 /\ Init!13 /\ Init!14 /\ Init!15 /\ Init!16
    /\ Init!17 /\ Init!18 /\ Init!19
    /\ now \in CooldownTimes
    /\ \E sms, mail \in {NoDate} \cup {Date(t) : t \in {u \in CooldownTimes : u <= now}} :
          accounts = {[NewAccount(1, Phone1, AcctPin) EXCEPT
                          !.email = "a@x.com",
                          !.lastVerificationSent = sms,
                          !.lastEmailVerificationSent = mail]}

\* the account is asked whether a code may be sent on the channel `type`
AskCooldown(type) ==
    \E a \in accounts :
        /\ lastOp' = [op |-> "canSend", type |-> type,
                      lastSent |-> IF type = "email" THEN a.lastEmailVerificationSent
                                   ELSE a.lastVerificationSent,
                      canSend |-> IF type = "email" THEN canSendEmailVerification(a, now)
                                  ELSE canSendVerification(a, now),
                      remaining |-> getRemainingCooldown(a, type, now)]
        /\ UNCHANGED <<now, otpCodes, emailCodes, accounts, gateVars, creating, finalizing,
                       historyVars, channel, calls, tokens, sweepVars, verifying>>

CooldownNext == \E type \in {"sms", "email"} : AskCooldown(type)

SpecCooldown == InitCooldown /\ [][CooldownNext]_vars

-----------------------------------------------------------------------------
(* verifyEmailChangeNewEmail of the controller that saves twice: the step    *)
(* 'completed' is saved first, the swap of the address second.  The call is   *)
(* suspended at each await; the process may stop while it is suspended.       *)

\* the rows on which the call may be made: one account, with or without a
\* change of address under way
FinalizeRows ==
    {[NewAccount(1, Phone1, AcctPin) EXCEPT
         !.email = old,
         !.emailVerified = verified,
         !.pendingEmail = pending,
         !.emailChangeVerificationStep = step,
         !.emailVerificationAttempts = attempts] :
       old \in {Null} \cup Emails, verified \in BOOLEAN, pending \in {Null} \cup Emails,
       step \in {"none", "sms_pending", "email_pending"}, attempts \in 0 .. 1}

InitFinalize ==
    /\ Init!1 /\ Init!2 /\ Init!3 /\ Init!5 /\ Init!6 /\ Init!7 /\ Init!8
    /\ Init!9 /\ Init!10 /\ Init!11 /\ Init!12 /\ Init!13 /\ Init!14 /\ Init!15 /\ Init!16
    /\ Init!17 /\ Init!18 /\ Init!19
    /\ \E a \in FinalizeRows :
          /\ a.emailVerified => a.email # Null
          /\ (a.pendingEmail = Null) <=> (a.emailChangeVerificationStep = "none")
          /\ a.pendingEmail # a.email \/ a.email = Null
          /\ accounts = {a}

finalizeFrame == <<now, otpCodes, emailCodes, gateVars, creating, historyVars, channel, calls,
                  tokens, sweepVars, verifying>>

FinalizeResult(phoneNumber, status, message, data) ==
    [op |-> "verifyEmailChangeNewEmail", phone |-> phoneNumber,
     status |-> status, message |-> message, data |-> data]

\* the call up to its first save; `approved` is the provider's answer for the code
FinalizeCall(phoneNumber, approved) ==
    LET found == findByPhoneNumber(accounts, phoneNumber)
        account == TheRow(found)
    IN  /\ finalizing = {}
        /\ IF found = {}
           THEN /\ lastOp' = FinalizeResult(phoneNumber, "error", "Account not found", Null)
                /\ UNCHANGED finalizing
           ELSE IF account.emailChangeVerificationStep = "completed"
                   \/ account.emailChangeVerificationStep = "none"
           THEN /\ lastOp' = FinalizeResult(phoneNumber, "ok",
                                            "Email change already completed!", account.email)
                /\ UNCHANGED finalizing
           ELSE IF account.emailChangeVerificationStep # "email_pending"
           THEN /\ lastOp' = FinalizeResult(phoneNumber, "error",
                       "Email verification not ready. Complete SMS verification first.", Null)
                /\ UNCHANGED finalizing
           ELSE IF ~approved
           THEN /\ lastOp' = FinalizeResult(phoneNumber, "error",
                                            "Invalid email verification code", Null)
                /\ UNCHANGED finalizing
           ELSE /\ finalizing' = {[pc |-> "completed", phone |-> phoneNumber,
                                   account |-> [account EXCEPT
                                       !.emailChangeVerificationStep = "completed"]]}
                /\ lastOp' = [op |-> "verifyEmailChangeNewEmail", phone |-> phoneNumber,
                              status |-> "running"]
        /\ UNCHANGED <<accounts, finalizeFrame>>

\* the first save: the step 'completed' reaches the row
FinalizeSaveCompleted ==
    \E c \in finalizing :
        /\ c.pc = "completed"
        /\ LET saved == save(accounts, c.account)
           IN  /\ accounts' = saved.rows
               /\ finalizing' = {[c EXCEPT !.pc = "swap",
                                    !.account = [saved.inst EXCEPT
                                        !.email = saved.inst.pendingEmail,
                                        !.pendingEmail = Null,
                                        !.emailVerified = TRUE,
                                        !.emailChangeVerificationStep = "none",
                                        !.emailVerificationAttempts = 0]]}
        /\ lastOp' = [op |-> "save", phone |-> c.phone, status |-> "running"]
        /\ UNCHANGED finalizeFrame

\* the second save, and the response
FinalizeSaveSwap ==
    \E c \in finalizing :
        /\ c.pc = "swap"
        /\ accounts' = save(accounts, c.account).rows
        /\ finalizing' = {}
        /\ lastOp' = FinalizeResult(c.phone, "ok", "Email changed successfully!",
                                    c.account.email)
        /\ UNCHANGED finalizeFrame

\* the process stops while the call is suspended: the call is lost, the rows stay
FinalizeCrash ==
    /\ finalizing # {}
    /\ finalizing' = {}
    /\ lastOp' = [op |-> "crash"]
    /\ UNCHANGED <<accounts, finalizeFrame>>

FinalizeNext ==
    \/ \E p \in Phones, approved \in BOOLEAN : FinalizeCall(p, approved)
    \/ FinalizeSaveCompleted
    \/ FinalizeSaveSwap
    \/ FinalizeCrash

SpecFinalize == InitFinalize /\ [][FinalizeNext]_vars

-----------------------------------------------------------------------------
(* Two subscribers, each with an account, and the calls that set, verify and  *)
(* change their addresses, one call at a time.                                *)

\* the two accounts after createAccount; the first subscriber may already have
\* added and verified an address (addEmail, sendEmailVerification, verifyEmail)
TwoRows ==
    LET created == _createNewAccount(_createNewAccount({}, Phone1, AcctPin).rows,
                                     Phone2, AcctPin).rows
        first == CHOOSE a \in created : a.phoneNumber = Phone1
    IN  {created} \cup
        {(created \ {first}) \cup {[first EXCEPT !.email = e, !.emailVerified = TRUE]} :
            e \in Emails}

InitTwo ==
    /\ Init!1 /\ Init!2 /\ Init!3 /\ Init!5 /\ Init!6 /\ Init!7 /\ Init!8 /\ Init!9
    /\ Init!10 /\ Init!11 /\ Init!12 /\ Init!13 /\ Init!14 /\ Init!15 /\ Init!16
    /\ Init!17 /\ Init!18 /\ Init!19
    /\ accounts \in TwoRows

TwoNext ==
    \/ \E p \in Phones, c \in AcctCodes : SendVerificationCode(p, c, 0)
    \/ \E p \in Phones, e \in Emails : AddEmail(p, e)
    \/ \E p \in Phones, c \in AcctCodes : SendEmailVerification(p, c, 0)
    \/ \E p \in Phones, c \in AcctCodes : VerifyEmail(p, c)
    \/ \E p \in Phones, e \in Emails : RequestEmailChange(p, e)
    \/ \E p \in Phones, c \in AcctCodes, m \in AcctCodes : VerifyEmailChangeSms(p, c, m, 0)
    \/ \E p \in Phones, c \in AcctCodes : VerifyEmailChangeNewEmail(p, c)

SpecTwo == InitTwo /\ [][TwoNext]_vars

-----------------------------------------------------------------------------
(* Login and authentication: the route POST /login, and the middleware that   *)
(* authenticates a request from its token, for one subscriber whose flags     *)
(* change between the two.                                                    *)

\* JwtService.expiresIn, '24h', in seconds
TokenTtlSeconds == 86400

\* Date.now() in the seconds of a token
Seconds(t) == t \div 1000

\* ValidationMiddleware._isValidPin: six digits once trimmed
_isValidPin(pin) ==
    /\ pin # <<>>
    /\ Len(Trim(pin)) = 6
    /\ \A i \in 1 .. Len(Trim(pin)) : IsDigit(Trim(pin)[i])

\* ValidationMiddleware.validateLoginPin lets the request through
validateLoginPin(phoneNumber, pin) ==
    /\ phoneNumber # <<>> /\ pin # <<>>
    /\ \E sub \in {Sub1, Sub2} : phoneNumber \in RawForms(sub)
    /\ _isValidPin(pin)

\* Account.validatePin: the trimmed input is compared with the stored PIN
validatePin(account, inputPin) ==
    IF inputPin = <<>> THEN FALSE ELSE account.pin = Trim(inputPin)

\* _generateAuthToken -> jwt.sign: the payload, with iat and exp
_generateAuthToken(account, t) ==
    [phoneNumber |-> account.phoneNumber,
     accountId |-> account.id,
     smsVerified |-> account.smsVerified,
     emailVerified |-> account.emailVerified,
     fullyVerified |-> account.fullyVerified,
     iat |-> Seconds(t),
     exp |-> Seconds(t) + TokenTtlSeconds]

\* the response of a login that succeeded carries the token
LoginOutcome(rows, sms, mail, status, message, token) ==
    [accounts |-> rows, otpCodes |-> sms, emailCodes |-> mail,
     status |-> status, message |-> message, data |-> token]

loginWithPin(phoneNumber, pin) ==
    LET found == findByPhoneNumber(accounts, phoneNumber)
        account == TheRow(found)
    IN  IF found = {} THEN Thrown("Account not found")
        ELSE IF ~account.smsVerified THEN Thrown("Account phone number not verified")
        ELSE IF ~validatePin(account, pin) THEN Thrown("Invalid PIN")
        ELSE LoginOutcome(accounts, otpCodes, emailCodes, "ok", "Login successful",
                          _generateAuthToken(account, now))

\* variant: the identity is read from the token
_attachUserToRequest_fromToken(decoded, account) ==
    [phoneNumber |-> decoded.phoneNumber,
     accountId |-> decoded.accountId,
     smsVerified |-> decoded.smsVerified,
     emailVerified |-> decoded.emailVerified,
     fullyVerified |-> decoded.fullyVerified,
     kycStatus |-> account.kycStatus]

\* _attachUserToRequest: req.user, for the request whose token decoded to `decoded`
_attachUserToRequest(decoded, account) ==
    [phoneNumber |-> account.phoneNumber,
     accountId |-> account.id,
     smsVerified |-> account.smsVerified,
     emailVerified |-> account.emailVerified,
     fullyVerified |-> account.fullyVerified,
     kycStatus |-> account.kycStatus]

NoUser == [phoneNumber |-> <<>>]

\* AuthMiddleware.authenticate: the status, the message and req.user.  A token
\* verifies when JwtService signed it and it has not expired.
authenticate(token) ==
    LET found == findByPhoneNumber(accounts, token.phoneNumber)
        account == TheRow(found)
    IN  IF token \notin tokens
        THEN [status |-> "error", message |-> "Invalid token", user |-> NoUser]
        ELSE IF Seconds(now) >= token.exp
        THEN [status |-> "error", message |-> "Token has expired", user |-> NoUser]
        ELSE IF found = {}
        THEN [status |-> "error", message |-> "Account not found", user |-> NoUser]
        ELSE IF ~account.smsVerified
        THEN [status |-> "error", message |-> "Account phone number not verified",
              user |-> NoUser]
        ELSE [status |-> "ok", message |-> "next",
              user |-> _attachUserToRequest(token, account)]

\* the numbers and the PINs that reach POST /login
LoginPhones == {<<"0">> \o Sub1, Phone2}
WrongPin == <<"6", "5", "4", "3", "2", "1">>
LoginPins == {AcctPin, WrongPin, <<" ">> \o AcctPin, <<"1", "2", "3">>}

AuthClock == {0, 1000 * TokenTtlSeconds}

\* the tokens a request may carry for the subscriber's number: those that
\* JwtService signed are in `tokens`, the others do not verify
AuthTokens ==
    {[phoneNumber |-> Phone1, accountId |-> 1, smsVerified |-> TRUE,
      emailVerified |-> emailVerified, fullyVerified |-> fullyVerified,
      iat |-> Seconds(t), exp |-> Seconds(t) + TokenTtlSeconds] :
        emailVerified \in BOOLEAN, fullyVerified \in BOOLEAN, t \in AuthClock}

InitAuth ==
    /\ Init!1 /\ Init!2 /\ Init!3 /\ Init!5 /\ Init!6 /\ Init!7 /\ Init!8 /\ Init!9
    /\ Init!10 /\ Init!11 /\ Init!12 /\ Init!13 /\ Init!14 /\ Init!15 /\ Init!16
    /\ Init!17 /\ Init!18 /\ Init!19
    /\ accounts = _createNewAccount({}, Phone1, AcctPin).rows

\* POST /login: validateLoginPin, then loginWithPin
LoginWithPin(phoneNumber, pin) ==
    LET r == IF validateLoginPin(phoneNumber, pin)
             THEN loginWithPin(phoneNumber, pin)
             ELSE Thrown("PIN must be exactly 6 digits")
    IN  /\ Commit("loginWithPin", phoneNumber, r)
        /\ tokens' = IF r.status = "ok" THEN tokens \cup {r.data} ELSE tokens
        /\ UNCHANGED <<now, gateVars, creating, finalizing, channel, historyVars, sweepVars,
                       verifying>>

\* a request to an authenticated route, carrying `token`
Authenticate(token) ==
    LET r == authenticate(token)
    IN  /\ lastOp' = [op |-> "authenticate", token |-> token, status |-> r.status,
                      message |-> r.message, user |-> r.user]
        /\ UNCHANGED <<now, otpCodes, emailCodes, accounts, gateVars, creating, finalizing,
                       historyVars, channel, calls, tokens, sweepVars, verifying>>

AuthNext ==
    \/ Tick(AuthClock)
    \/ \E p \in LoginPhones, pin \in LoginPins : LoginWithPin(p, pin)
    \/ \E token \in AuthTokens : Authenticate(token)
    \/ \E e \in Emails : AddEmail(AcctPhone, e)
    \/ \E c \in AcctCodes : SendEmailVerification(AcctPhone, c, 0)
    \/ \E c \in AcctSubmitted : VerifyEmail(AcctPhone, c)

SpecAuth == InitAuth /\ [][AuthNext]_vars

-----------------------------------------------------------------------------
(* Verification of the address of one account: the account has added an      *)
(* address and has made some failed attempts (verifyEmail with no code in the *)
(* store counts as one).                                                      *)

VerifyRows ==
    {{[NewAccount(1, Phone1, AcctPin) EXCEPT
          !.email = "a@x.com",
          !.emailVerificationAttempts = attempts]} : attempts \in 0 .. MaxEmailAttempts}

InitVerify ==
    /\ Init!1 /\ Init!2 /\ Init!3 /\ Init!5 /\ Init!6 /\ Init!7 /\ Init!8 /\ Init!9
    /\ Init!10 /\ Init!11 /\ Init!12 /\ Init!13 /\ Init!14 /\ Init!15 /\ Init!16
    /\ Init!17 /\ Init!18 /\ Init!19
    /\ accounts \in VerifyRows

VerifyNext ==
    \/ Tick(AcctClock)
    \/ \E e \in Emails : AddEmail(AcctPhone, e)
    \/ \E c \in AcctCodes, f \in {0, SendOtpRetries} : SendEmailVerification(AcctPhone, c, f)
    \/ \E c \in AcctSubmitted : VerifyEmail(AcctPhone, c)

SpecVerify == InitVerify /\ [][VerifyNext]_vars

-----------------------------------------------------------------------------
(* AccountRoutes: the HTTP status with which a route answers the outcome of   *)
(* the controller call                                                        *)

\* AccountRoutes.sendVerificationCode: res.json on success, status(400) in the catch
sendVerificationCodeStatus(outcome) == IF outcome.status = "ok" THEN 200 ELSE 400

\* AccountRoutes.sendEmailVerification: res.json on success, status(400) in the catch
sendEmailVerificationStatus(outcome) == IF outcome.status = "ok" THEN 200 ELSE 400

-----------------------------------------------------------------------------
(* The application: the request path works on the services that the          *)
(* controller constructed; the cleanup interval of App works on a            *)
(* SemaphoreService and a BrevoService that it constructs for itself.        *)

\* the period of the cleanup interval
CleanupPeriodMs == 600000

AppClock == {0, OtpTtlMs + 1, CleanupPeriodMs}

\* the callback of the interval: cleanupExpiredCodes() on the two services of
\* _setupCleanupInterval; the timer first fires one period after the start
AppCleanup ==
    LET sms == cleanupExpiredCodes(cleanupOtpCodes, now)
        mail == cleanupExpiredCodes(cleanupEmailCodes, now)
    IN  /\ now >= CleanupPeriodMs
        /\ cleanupOtpCodes' = sms.store
        /\ cleanupEmailCodes' = mail.store
        /\ lastOp' = [op |-> "cleanupInterval", sms |-> sms.cleaned, email |-> mail.cleaned]
        /\ UNCHANGED <<now, otpCodes, emailCodes, accounts, gateVars, creating, finalizing,
                       historyVars, channel, calls, tokens, verifying>>

AppNext ==
    \/ Tick(AppClock)
    \/ \E p \in Phones, c \in Codes, f \in 0..SendOtpRetries : SmsSend(p, c, f)
    \/ \E p \in Phones, c \in SubmittedCodes : SmsVerify(p, c)
    \/ \E e \in Emails, c \in Codes, f \in 0..SendOtpRetries : EmailSend(e, c, f)
    \/ \E e \in Emails, c \in SubmittedCodes : EmailVerify(e, c)
    \/ AppCleanup

\* time passes and the timer fires
SpecApp ==
    InitOtp /\ [][AppNext]_vars /\ WF_vars(Tick(AppClock)) /\ WF_vars(AppCleanup)

-----------------------------------------------------------------------------
(* BaseService.executeWithRetry, as sendOTP and sendEmailOTP call it: what    *)
(* the attempts of one delivery do, one after the other                       *)

\* how an attempt may end: it succeeds, it fails for a passing reason, or the
\* request is rejected for good
TransientFailures == {"timeout", "unavailable"}
PermanentFailures == {"invalid recipient", "validation", "authentication"}
AttemptOutcomes == {"ok"} \cup TransientFailures \cup PermanentFailures

\* the delay before the first retry of sendOTP and sendEmailOTP
RetryDelayMs == 2000

\* the loop from `attempt` on: the attempts made, how the call ends, the last
\* error and the time spent in the delays between attempts
RECURSIVE executeWithRetry(_, _, _, _, _)
executeWithRetry(outcomes, attempt, maxRetries, delayMs, waited) ==
    IF attempt > maxRetries
    THEN [attempts |-> maxRetries, status |-> "error", lastError |-> outcomes[maxRetries],
          waited |-> waited]
    ELSE IF outcomes[attempt] = "ok"
    THEN [attempts |-> attempt, status |-> "ok", lastError |-> "none", waited |-> waited]
    ELSE executeWithRetry(outcomes, attempt + 1, maxRetries, delayMs,
                          IF attempt < maxRetries THEN waited + delayMs * attempt
                          ELSE waited)

\* one delivery through sendOTP ("sms") or sendEmailOTP ("email")
Deliver(service, outcomes) ==
    /\ lastOp' = [op |-> "executeWithRetry", service |-> service, outcomes |-> outcomes,
                  res |-> executeWithRetry(outcomes, 1, SendOtpRetries, RetryDelayMs, 0)]
    /\ UNCHANGED <<now, otpCodes, emailCodes, accounts, gateVars, creating, finalizing,
                   historyVars, channel, calls, tokens, sweepVars, verifying>>

\* what the attempts of one delivery may meet: the same request is sent
\* again, so a rejection for good is met again by every later attempt
DeliveryOutcomes ==
    {outcomes \in [1 .. SendOtpRetries -> AttemptOutcomes] :
        \A k \in 1 .. (SendOtpRetries - 1) :
            outcomes[k] \in PermanentFailures => outcomes[k + 1] = outcomes[k]}

RetryNext ==
    \E service \in {"sms", "email"}, outcomes \in DeliveryOutcomes : Deliver(service, outcomes)

SpecRetry == Init /\ [][RetryNext]_vars

-----------------------------------------------------------------------------
(* Overlapping verifyEmail calls.  A call runs in three pieces, each of them  *)
(* uninterrupted: the row is read (await findByPhoneNumber); the              *)
(* continuation validates what was read and calls verifyEmailOTP, whose body  *)
(* holds no await and so reads and changes the code store in one piece; the   *)
(* continuation of that await changes the instance and saves it.              *)

\* the calls that may be under way together
VerifyIds == {1, 2}

RaceClock == {0, OtpTtlMs + 1}

\* the issued code is CodeA: two different wrong codes are needed
CodeC == <<"3", "3", "3", "3", "3", "3">>

RaceSubmitted == {CodeA, CodeB, CodeC}

NoVerification == Result("none", "")

\* instance.save() of an instance that was loaded as `loaded`: the UPDATE sets
\* the fields whose value differs from the loaded one, in the row as it is now
saveChanged(rows, loaded, inst) ==
    LET changed == {f \in DOMAIN inst : inst[f] # loaded[f]}
        row == CHOOSE a \in rows : a.id = inst.id
    IN  IF changed = {}
        THEN rows
        ELSE (rows \ {row}) \cup {[f \in DOMAIN row |-> IF f \in changed THEN inst[f] ELSE row[f]]}

VerifyEmailResult(phoneNumber, status, message) ==
    [op |-> "verifyEmail", phone |-> phoneNumber, status |-> status, message |-> message,
     data |-> Null]

raceFrame == <<now, otpCodes, gateVars, creating, finalizing, historyVars, channel, tokens,
               sweepVars>>

\* the row is read and validated
VerifyEmailLoad(id, phoneNumber, code) ==
    LET found == findByPhoneNumber(accounts, phoneNumber)
        account == TheRow(found)
    IN  /\ calls < MaxCalls
        /\ calls' = calls + 1
        /\ \A r \in verifying : r.id # id
        /\ \A j \in VerifyIds : j < id => \E r \in verifying : r.id = j
        /\ IF found = {}
           THEN /\ lastOp' = VerifyEmailResult(phoneNumber, "error", "Account not found")
                /\ UNCHANGED verifying
           ELSE IF ~_validateEmailForVerification(account)
           THEN /\ lastOp' = VerifyEmailResult(phoneNumber, "error",
                                               "No email address or email already verified")
                /\ UNCHANGED verifying
           ELSE IF ~_validateEmailAttempts(account)
           THEN /\ lastOp' = VerifyEmailResult(phoneNumber, "error",
                        "Too many email verification attempts. Please request a new code.")
                /\ UNCHANGED verifying
           ELSE /\ lastOp' = [op |-> "findByPhoneNumber", phone |-> phoneNumber,
                              status |-> "running"]
                /\ verifying' = verifying \cup
                                   {[id |-> id, phone |-> phoneNumber, code |-> code,
                                     pc |-> "loaded", account |-> account, storedData |-> {},
                                     verification |-> NoVerification]}
        /\ UNCHANGED <<accounts, emailCodes, raceFrame>>

\* emailService.verifyEmailOTP(account.email, code) runs on the store as it is
VerifyEmailCheck(id) ==
    \E r \in verifying :
        /\ r.id = id
        /\ r.pc = "loaded"
        /\ LET v == verifyEmailOTP(emailCodes, r.account.email, r.code, now)
           IN  /\ emailCodes' = v.store
               /\ IF v.res.status = "error"
                  THEN /\ verifying' = verifying \ {r}
                       /\ lastOp' = VerifyEmailResult(r.phone, "error", v.res.message)
                  ELSE /\ verifying' = (verifying \ {r}) \cup
                              {[r EXCEPT !.pc = "answered",
                                         !.storedData =
                                             IF MapHas(emailCodes, r.account.email)
                                             THEN {emailCodes[r.account.email]}
                                             ELSE {},
                                         !.verification = v.res]}
                       /\ lastOp' = [op |-> "verifyEmailOTP", phone |-> r.phone,
                                     status |-> "running"]
        /\ UNCHANGED <<accounts, calls, raceFrame>>

\* markEmailAsVerified or _handleFailedEmailVerification on the instance that
\* was loaded, and the response
VerifyEmailSave(id) ==
    \E r \in verifying :
        /\ r.id = id
        /\ r.pc = "answered"
        /\ IF r.verification.status = "approved"
           THEN /\ accounts' = saveChanged(accounts, r.account,
                                   [r.account EXCEPT !.emailVerified = TRUE,
                                                     !.emailVerificationAttempts = 0,
                                                     !.lastEmailVerificationSent = NoDate])
                /\ lastOp' = [VerifyEmailResult(r.phone, "ok", "verified")
                                 EXCEPT !.data = r.id]
           ELSE /\ accounts' = saveChanged(accounts, r.account,
                                   [r.account EXCEPT !.emailVerificationAttempts =
                                        r.account.emailVerificationAttempts + 1])
                /\ lastOp' = [VerifyEmailResult(r.phone, "error", r.verification.message)
                                 EXCEPT !.data = r.id]
        /\ verifying' = verifying \ {r}
        /\ UNCHANGED <<emailCodes, calls, raceFrame>>

\* the account has an address and a code has just been issued for it
InitRace ==
    /\ Init!1 /\ Init!2 /\ Init!5 /\ Init!6 /\ Init!7 /\ Init!8 /\ Init!9
    /\ Init!10 /\ Init!11 /\ Init!12 /\ Init!13 /\ Init!14 /\ Init!15 /\ Init!16
    /\ Init!17 /\ Init!18 /\ Init!19
    /\ \E rows \in VerifyRows :
          accounts = {[a EXCEPT !.lastEmailVerificationSent = Date(0)] : a \in rows}
    /\ emailCodes = _storeEmailOTPCode(EmptyMap, "a@x.com", CodeA, OtpTtlMs, 0)

RaceNext ==
    \/ Tick(RaceClock)
    \/ \E id \in VerifyIds, c \in RaceSubmitted :
          VerifyEmailLoad(id, AcctPhone, c)
    \/ \E id \in VerifyIds : VerifyEmailCheck(id)
    \/ \E id \in VerifyIds : VerifyEmailSave(id)

SpecRace == InitRace /\ [][RaceNext]_vars

-----------------------------------------------------------------------------
(* verifyEmail calls that overlap each other and the other operations on the  *)
(* address of the account: sendEmailVerification, addEmail and the change of  *)
(* the address.  Only verifyEmail changes the instance after an await on a    *)
(* code store and adds to a counter; the others run here in one piece, and    *)
(* all of it within the first minute: no cooldown or lifetime runs out.       *)

\* the account is one failure short of the limit and has asked for an SMS code
InterleaveRows ==
    {{[NewAccount(1, Phone1, AcctPin) EXCEPT
          !.email = "a@x.com",
          !.emailVerificationAttempts = MaxEmailAttempts - 1,
          !.lastVerificationSent = Date(0)]}}

InitInterleave ==
    /\ Init!1 /\ Init!3 /\ Init!5 /\ Init!6 /\ Init!7 /\ Init!8 /\ Init!9
    /\ Init!10 /\ Init!11 /\ Init!12 /\ Init!13 /\ Init!14 /\ Init!15 /\ Init!16
    /\ Init!17 /\ Init!18 /\ Init!19
    /\ accounts \in InterleaveRows
    /\ otpCodes = _storeOTPCode(EmptyMap, Phone1, CodeA, 0)

\* the address that is added or changed to
InterleaveEmails == {"b@x.com"}

InterleaveNext ==
    \/ \E e \in InterleaveEmails : AddEmail(AcctPhone, e)
    \/ \E c \in AcctCodes : SendEmailVerification(AcctPhone, c, 0)
    \/ \E id \in VerifyIds, c \in AcctSubmitted : VerifyEmailLoad(id, AcctPhone, c)
    \/ \E id \in VerifyIds : VerifyEmailCheck(id)
    \/ \E id \in VerifyIds : VerifyEmailSave(id)
    \/ \E e \in InterleaveEmails : RequestEmailChange(AcctPhone, e)
    \/ \E c \in AcctCodes, m \in AcctCodes : VerifyEmailChangeSms(AcctPhone, c, m, 0)
    \/ \E c \in AcctCodes : VerifyEmailChangeNewEmail(AcctPhone, c)

SpecInterleave == InitInterleave /\ [][InterleaveNext]_vars

-----------------------------------------------------------------------------
(* Account.updateKycStatus, called on the row of one subscriber *)

ValidKycStatuses == {"not_submitted", "pending", "approved", "rejected"}

\* a status outside the list is among what a caller may pass
KycStatuses == ValidKycStatuses \cup {"verified"}

KycClock == {0, 1000}

\* Account.updateKycStatus(status, submittedAt) on the loaded instance `account`;
\* submittedAt = NoDate stands for the default null
updateKycStatus(rows, account, status, submittedAt) ==
    IF status \notin ValidKycStatuses
    THEN [rows |-> rows, status |-> "error", message |-> "Invalid KYC status"]
    ELSE LET withStatus == [account EXCEPT !.kycStatus = status]
             withDate == IF submittedAt # NoDate
                         THEN [withStatus EXCEPT !.kycSubmittedAt = submittedAt]
                         ELSE withStatus
             inst == IF status = "approved"
                     THEN [withDate EXCEPT !.fullyVerified = TRUE]
                     ELSE withDate
         IN  [rows |-> save(rows, inst).rows, status |-> "ok", message |-> status]

\* the subscriber has an address, verified or not
KycRows ==
    {{[NewAccount(1, Phone1, AcctPin) EXCEPT
          !.email = "a@x.com",
          !.emailVerified = verified]} : verified \in BOOLEAN}

InitKyc ==
    /\ Init!1 /\ Init!2 /\ Init!3 /\ Init!5 /\ Init!6 /\ Init!7 /\ Init!8 /\ Init!9
    /\ Init!10 /\ Init!11 /\ Init!12 /\ Init!13 /\ Init!14 /\ Init!15 /\ Init!16
    /\ Init!17 /\ Init!18 /\ Init!19
    /\ accounts \in KycRows

UpdateKycStatus(phoneNumber, status, submitted) ==
    LET found == findByPhoneNumber(accounts, phoneNumber)
        r == updateKycStatus(accounts, TheRow(found), status,
                             IF submitted THEN Date(now) ELSE NoDate)
    IN  /\ found # {}
        /\ accounts' = r.rows
        /\ lastOp' = [op |-> "updateKycStatus", phone |-> phoneNumber, kyc |-> status,
                      submitted |-> submitted, status |-> r.status, message |-> r.message]
        /\ UNCHANGED <<now, otpCodes, emailCodes, gateVars, creating, finalizing, historyVars,
                       channel, calls, tokens, sweepVars, verifying>>

KycNext ==
    \/ Tick(KycClock)
    \/ \E s \in KycStatuses, d \in BOOLEAN : UpdateKycStatus(AcctPhone, s, d)

SpecKyc == InitKyc /\ [][KycNext]_vars

-----------------------------------------------------------------------------
(* AuthMiddleware: the status with which authenticate and the capability      *)
(* gates answer, as functions of the Authorization header, of the table and   *)
(* of req.user                                                                *)

AuthenticationError(message) == [name |-> "AuthenticationError", message |-> message]
AuthorizationError(message) == [name |-> "AuthorizationError", message |-> message]

\* variant: every refusal is an authentication error
_getErrorStatusCode_flat(error) == 401

\* _getErrorStatusCode
_getErrorStatusCode(error) == IF error.name = "AuthorizationError" THEN 403 ELSE 401

\* _handleAuthError: the response
_handleAuthError(error) ==
    [next |-> FALSE, statusCode |-> _getErrorStatusCode(error), message |-> error.message]

\* next() was called: no response is written by the middleware
PassedOn == [next |-> TRUE, statusCode |-> 0, message |-> "next"]

\* a request without an Authorization header
NoHeader == [authorization |-> "undefined"]

\* authenticate, from the header on: every error of it is an AuthenticationError
authenticateRequest(header) ==
    IF header = NoHeader
    THEN [response |-> _handleAuthError(AuthenticationError("Authorization header is required")),
          user |-> NoUser]
    ELSE LET r == authenticate(header)
         IN  IF r.status = "ok"
             THEN [response |-> PassedOn, user |-> r.user]
             ELSE [response |-> _handleAuthError(AuthenticationError(r.message)),
                   user |-> NoUser]

\* requireEmailVerification, requireFullVerification, requireSmsVerification:
\* the flag of req.user that each of them asks for, and its message
GateFlags ==
    [requireEmailVerification |-> "emailVerified",
     requireFullVerification |-> "fullyVerified",
     requireSmsVerification |-> "smsVerified"]

GateMessages ==
    [requireEmailVerification |-> "Email verification required to access this endpoint",
     requireFullVerification |-> "Full account verification required to access this endpoint",
     requireSmsVerification |-> "SMS verification required to access this endpoint"]

requireVerification(gate, user) ==
    IF user = NoUser
    THEN _handleAuthError(AuthenticationError("Authentication required"))
    ELSE IF ~user[GateFlags[gate]]
    THEN _handleAuthError(AuthorizationError(GateMessages[gate]))
    ELSE PassedOn

\* what req.user may be when a gate runs: nothing, or an identity
GateUsers ==
    {NoUser} \cup
    {[phoneNumber |-> Phone1, accountId |-> 1, smsVerified |-> sms, emailVerified |-> email,
      fullyVerified |-> full, kycStatus |-> "not_submitted"] :
        sms \in BOOLEAN, email \in BOOLEAN, full \in BOOLEAN}

\* the table as authenticate may find it: no row for the number of the token,
\* or a row with any flags (the column default of smsVerified is false)
GateRows ==
    {{}} \cup
    {{[NewAccount(1, Phone1, AcctPin) EXCEPT !.smsVerified = sms,
                                             !.emailVerified = email]} :
        sms \in BOOLEAN, email \in BOOLEAN}

\* JwtService has signed the tokens of time 0; the others do not verify
InitGate ==
    /\ Init!1 /\ Init!2 /\ Init!3 /\ Init!5 /\ Init!6 /\ Init!7 /\ Init!8 /\ Init!9
    /\ Init!10 /\ Init!11 /\ Init!12 /\ Init!13 /\ Init!14 /\ Init!15
    /\ Init!17 /\ Init!18 /\ Init!19
    /\ accounts \in GateRows
    /\ tokens = {token \in AuthTokens : token.iat = 0}

gateFrame == <<now, otpCodes, emailCodes, accounts, gateVars, creating, finalizing,
               historyVars, channel, calls, tokens, sweepVars, verifying>>

AuthenticateRequest(header) ==
    LET r == authenticateRequest(header)
    IN  /\ lastOp' = [op |-> "authenticate", header |-> header, response |-> r.response,
                      user |-> r.user]
        /\ UNCHANGED gateFrame

RequireVerification(gate, user) ==
    /\ lastOp' = [op |-> gate, user |-> user, response |-> requireVerification(gate, user)]
    /\ UNCHANGED gateFrame

GateNext ==
    \/ Tick(AuthClock)
    \/ \E header \in AuthTokens \cup {NoHeader} : AuthenticateRequest(header)
    \/ \E gate \in DOMAIN GateFlags, user \in GateUsers : RequireVerification(gate, user)

SpecGate == InitGate /\ [][GateNext]_vars

-----------------------------------------------------------------------------
(* verifyEmail with its welcome message: the message is sent after the address *)
(* is marked verified, and its failure is logged                              *)

\* sendWelcomeEmail: executeWithRetry gives up after SendOtpRetries failures
sendWelcomeEmail(fails) == [thrown |-> fails >= SendOtpRetries]

\* variant: the failure of the welcome message is thrown on
_sendWelcomeEmailSafely_rethrow(fails) ==
    [thrown |-> sendWelcomeEmail(fails).thrown, logged |-> FALSE]

\* _sendWelcomeEmailSafely: try, catch, logError
_sendWelcomeEmailSafely(fails) ==
    [thrown |-> FALSE, logged |-> sendWelcomeEmail(fails).thrown]

\* verifyEmail, with the sending of the welcome message in its approved branch;
\* whatever is thrown inside it leaves through handleError
verifyEmailWelcome(phoneNumber, code, fails) ==
    LET r == verifyEmail(phoneNumber, code)
        welcome == _sendWelcomeEmailSafely(fails)
    IN  IF r.status = "ok" /\ welcome.thrown
        THEN Outcome(r.accounts, r.otpCodes, r.emailCodes, "error", "Failed to verify email")
        ELSE r

VerifyEmailWelcome(phoneNumber, code, fails) ==
    LET r == verifyEmailWelcome(phoneNumber, code, fails)
        approved == verifyEmail(phoneNumber, code).status = "ok"
    IN  /\ calls < MaxCalls
        /\ calls' = calls + 1
        /\ accounts' = r.accounts
        /\ otpCodes' = r.otpCodes
        /\ emailCodes' = r.emailCodes
        /\ lastOp' = [op |-> "verifyEmail", phone |-> normalizePhoneNumber(phoneNumber),
                      status |-> r.status, message |-> r.message, data |-> r.data,
                      welcome |-> IF ~approved THEN "none"
                                  ELSE IF _sendWelcomeEmailSafely(fails).logged
                                          \/ _sendWelcomeEmailSafely(fails).thrown
                                  THEN "failed" ELSE "sent"]
        /\ UNCHANGED <<historyVars, acctFrame>>

WelcomeNext ==
    \/ Tick(AcctClock)
    \/ \E e \in Emails : AddEmail(AcctPhone, e)
    \/ \E c \in AcctCodes, f \in {0, SendOtpRetries} : SendEmailVerification(AcctPhone, c, f)
    \/ \E c \in AcctSubmitted, f \in {0, SendOtpRetries} : VerifyEmailWelcome(AcctPhone, c, f)

SpecWelcome == InitVerify /\ [][WelcomeNext]_vars

-----------------------------------------------------------------------------
(* An account whose address is verified: the ways to put another address in   *)
(* its place                                                                  *)

\* the account after createAccount, addEmail('a@x.com') and verifyEmail
ReplaceRows ==
    {[NewAccount(1, Phone1, AcctPin) EXCEPT !.email = "a@x.com",
                                            !.emailVerified = TRUE,
                                            !.fullyVerified = TRUE]}

\* approvedPhones starts empty here: it records the SMS codes approved since
\* this state
InitReplace ==
    /\ Init!1 /\ Init!2 /\ Init!3 /\ Init!5 /\ Init!6 /\ Init!7 /\ Init!8 /\ Init!9
    /\ Init!10 /\ Init!11 /\ Init!12 /\ Init!13 /\ Init!14 /\ Init!15 /\ Init!16
    /\ Init!17 /\ Init!18 /\ Init!19
    /\ accounts = ReplaceRows

SpecReplace == InitReplace /\ [][Next]_vars

-----------------------------------------------------------------------------
(* Properties of the OTP stores (SpecOtp) *)

\* the store of the service the run exercises
Store == IF channel = "sms" THEN otpCodes ELSE emailCodes

\* a code of the shape the service's _validateInput accepts
WellFormed(code) == IF channel = "sms" THEN SmsCodeShapeOk(code) ELSE EmailCodeShapeOk(code)

\* the entry of r is there and its time has not passed
Live(r) == MapHas(Store, r) /\ ~(now > Store[r].expiresAt)

VerifyStep == lastOp'.op = "verifyOTP"
SendStep == lastOp'.op = "sendOTP"

\* what C2 asks of one step
C2_WrongCodeStep ==
    /\ VerifyStep =>
          LET r == lastOp'.to
              c == lastOp'.code
          IN  (Live(r) /\ WellFormed(c) /\ Trim(c) # Store[r].code) =>
                 IF Store[r].attempts < MaxOtpAttempts
                 THEN /\ lastOp'.res = Result("failed", "Invalid verification code")
                      /\ MapHas(Store', r)
                      /\ Store'[r] = [Store[r] EXCEPT !.attempts = Store[r].attempts + 1]
                 ELSE /\ lastOp'.res = Result("failed", "Too many failed attempts")
                      /\ ~MapHas(Store', r)
    /\ \A r \in DOMAIN Store' :
          /\ Store'[r].attempts \in 0..MaxOtpAttempts
          /\ (~MapHas(Store, r) \/ Store[r] # Store'[r]) =>
                \/ SendStep /\ lastOp'.to = r /\ Store'[r].attempts = 0
                \/ VerifyStep /\ lastOp'.to = r /\ MapHas(Store, r)
                      /\ Store'[r].attempts = Store[r].attempts + 1

\* C2: after a code is issued for R and before it expires, each of the first 3
\* verify calls with a wrong (well-formed) code returns failed/"Invalid
\* verification code", keeps the entry and adds exactly 1 to its attempts; the
\* 4th returns failed/"Too many failed attempts" and removes the entry.  The
\* attempts of an entry start at 0 at issue and change in no other way.
C2_WrongCodeAttempts == [][C2_WrongCodeStep]_vars

\* the 4th call has happened: the entry is gone after "Too many failed attempts"
C2_Witness ==
    /\ lastOp.op = "verifyOTP"
    /\ lastOp.res = Result("failed", "Too many failed attempts")
    /\ ~MapHas(Store, lastOp.to)

\* what C3 asks of one step
C3_OneShotStep ==
    /\ VerifyStep =>
          LET r == lastOp'.to
              c == lastOp'.code
          IN  /\ (Live(r) /\ Store[r].attempts < MaxOtpAttempts /\ WellFormed(c)
                     /\ Trim(c) = Store[r].code)
                    => (lastOp'.res.status = "approved" /\ ~MapHas(Store', r))
              /\ lastOp'.res.status = "approved" => (MapHas(Store, r) /\ ~MapHas(Store', r))
              /\ (WellFormed(c) /\ ~MapHas(Store, r))
                    => (lastOp'.res.status = "expired" /\ Store' = Store)
    /\ \A r \in DOMAIN Store' : ~MapHas(Store, r) => (SendStep /\ lastOp'.to = r)

\* C3: codes are one-shot.  A verify of a live, unexhausted entry with the
\* stored code returns approved and deletes the entry; approved is returned in
\* no other case; with no entry (none issued, or already consumed) a verify
\* returns expired and changes nothing; only an issue brings an entry back.
C3_OneShot == [][C3_OneShotStep]_vars

\* a code has been approved and its entry is gone
C3_Witness ==
    /\ lastOp.op = "verifyOTP"
    /\ lastOp.res.status = "approved"
    /\ ~MapHas(Store, lastOp.to)

\* what C4 asks of one step
C4_ReplaceStep ==
    /\ (SendStep /\ lastOp'.res.status = "pending") =>
          /\ MapHas(Store', lastOp'.to)
          /\ Store'[lastOp'.to] = [code |-> lastOp'.code, expiresAt |-> now + OtpTtlMs,
                                   attempts |-> 0, createdAt |-> now]
          /\ \A r \in (DOMAIN Store) \ {lastOp'.to} : MapHas(Store', r) /\ Store'[r] = Store[r]
    /\ VerifyStep =>
          LET r == lastOp'.to
              c == lastOp'.code
          IN  /\ lastOp'.res.status = "approved" => (MapHas(Store, r) /\ Trim(c) = Store[r].code)
              /\ (Live(r) /\ Store[r].attempts < MaxOtpAttempts /\ WellFormed(c)
                     /\ Trim(c) # Store[r].code)
                    => lastOp'.res = Result("failed", "Invalid verification code")

\* C4: the store holds one entry per recipient; an issue for a recipient sets
\* the recipient's entry to the new code with attempts 0 and a fresh expiry,
\* whatever entry was there, and touches no other recipient; a verify approves
\* only the code of the current entry, and any other well-formed code (the
\* replaced one included) counts as a wrong code.
C4_LatestCodeOnly == [][C4_ReplaceStep]_vars

\* a second code has been issued over an entry that was still there
C4_Witness ==
    /\ lastOp.op = "sendOTP"
    /\ lastOp.res.status = "pending"
    /\ lastOp.replaced
    /\ Store[lastOp.to].code = lastOp.code
    /\ Store[lastOp.to].attempts = 0

\* what C5 asks of one step
C5_ExpiredStep ==
    VerifyStep =>
        LET r == lastOp'.to
            c == lastOp'.code
        IN  (MapHas(Store, r) /\ now > Store[r].expiresAt /\ WellFormed(c)) =>
               /\ lastOp'.res = Result("expired", "Verification code has expired")
               /\ ~MapHas(Store', r)

\* C5: when now > expiresAt for the entry of R, a verify with any well-formed
\* code, right or wrong, and any attempts value returns expired and deletes the
\* entry.
C5_ExpiredWins == [][C5_ExpiredStep]_vars

\* an entry whose time had passed has been refused and removed
C5_Witness ==
    /\ lastOp.op = "verifyOTP"
    /\ lastOp.res = Result("expired", "Verification code has expired")
    /\ ~MapHas(Store, lastOp.to)

-----------------------------------------------------------------------------
(* Properties of the account machine (Spec) *)

\* C1: in every persisted state, an account's fullyVerified is true exactly
\* when its smsVerified and its emailVerified are both true.
C1_FullyVerifiedIffBoth ==
    \A a \in accounts : a.fullyVerified <=> (a.smsVerified /\ a.emailVerified)

\* C9: an account exists for a phone number only if an OTP verification for
\* that number returned approved earlier.
C9_CreatedOnlyAfterApproval ==
    \A a \in accounts : a.phoneNumber \in approvedPhones

\* a send-verification call for a number that was already sent a code
ResendStep ==
    /\ lastOp'.op = "sendVerificationCode"
    /\ MapHas(smsSentAt, lastOp'.phone)

C10_RateLimitStep ==
    (ResendStep /\ lastOp'.status = "ok")
        => now - smsSentAt[lastOp'.phone] >= CooldownMs

\* C10: a phone number is issued at most one SMS code per minute, whether or
\* not an account exists for it: a send-verification call that issues a code
\* comes at least CooldownMs after the previous issue to the same number.
C10_OneSmsPerMinute == [][C10_RateLimitStep]_vars

-----------------------------------------------------------------------------
(* Properties of the deduplication gate (SpecDedup) *)

\* an admitted request whose response is not over and whose TTL has not lapsed
InFlight(r) == r \in inflight /\ ~_isRequestExpired(r, now)

ArriveStep == lastOp'.op = "deduplicate"

C6_ArriveStep ==
    ArriveStep =>
        IF \E r \in inflight : r.key = lastOp'.key /\ InFlight(r)
        THEN /\ ~lastOp'.admitted
             /\ lastOp'.response.status = 429
             /\ lastOp'.response.retryAfter >= 0
             /\ inflight' = inflight
        ELSE (\A r \in inflight : r.key # lastOp'.key)
                 => /\ lastOp'.admitted
                    /\ \E r \in inflight' \ inflight : r.key = lastOp'.key

\* C6: a request that arrives while an admitted request with the same key has
\* not completed and its TTL has not lapsed is rejected with 429 and
\* retryAfter >= 0 (of the two, exactly one is admitted); a request that
\* arrives when every admitted request with its key has completed is admitted.
C6_OneAdmittedOtherRejected == [][C6_ArriveStep]_vars

\* C7: for every key, at most one admitted request with that key is in flight
\* (response not over, TTL not lapsed).
C7_AtMostOneInFlightPerKey ==
    \A r1, r2 \in inflight :
        (r1.key = r2.key /\ InFlight(r1) /\ InFlight(r2)) => r1 = r2

-----------------------------------------------------------------------------
(* Properties of overlapping createAccount calls (SpecCreate) *)

\* a createAccount call returns or throws
CreateDone == lastOp'.op = "createAccount"

C8_CreateStep ==
    /\ \A a, b \in accounts' : a.phoneNumber = b.phoneNumber => a = b
    /\ (CreateDone /\ \E a \in accounts : a.phoneNumber = lastOp'.phone)
           => /\ lastOp'.status = 409
              /\ accounts' = accounts

\* C8: under any interleaving of createAccount calls, whatever the format of
\* the number they give, there is at most one account per normalized number,
\* and a call that completes for a number that already has an account fails
\* with a conflict (409) and creates nothing.
C8_OneAccountPerPhone == [][C8_CreateStep]_vars

-----------------------------------------------------------------------------
(* Properties of the cooldown (SpecCooldown) *)

\* C11: on both channels canSend is true exactly when the last send is null
\* or at least 60 s (CooldownMs) before now, and exactly when the remaining
\* cooldown is 0.
C11_CanSendIffCooldownOver ==
    lastOp.op = "canSend" =>
        /\ lastOp.canSend <=> (lastOp.lastSent = NoDate \/ now - lastOp.lastSent[1] >= 60000)
        /\ lastOp.canSend <=> (lastOp.remaining = 0)

\* the boundary: a send exactly 60 s ago allows the next one, nothing remains
C11_Witness ==
    /\ lastOp.op = "canSend"
    /\ lastOp.lastSent # NoDate
    /\ now - lastOp.lastSent[1] = 60000
    /\ lastOp.canSend
    /\ lastOp.remaining = 0

-----------------------------------------------------------------------------
(* Properties of the email-change protocol (Spec) *)

\* the persisted row of the account the last call was about
RowOf(rows, phone) == CHOOSE a \in rows : a.phoneNumber = phone

Called(op) == lastOp'.op = op

Succeeded(op) == Called(op) /\ lastOp'.status = "ok"

C12_RequestStep ==
    Called("requestEmailChange") =>
        IF lastOp'.status = "ok"
        THEN LET before == RowOf(accounts, lastOp'.phone)
                 after == RowOf(accounts', lastOp'.phone)
             IN  /\ before.emailChangeVerificationStep = "none"
                 /\ after.pendingEmail # before.email
                 /\ \A a \in accounts : a.email = after.pendingEmail => a.id = before.id
                 /\ after.emailChangeVerificationStep = "sms_pending"
                 /\ after = [before EXCEPT !.pendingEmail = after.pendingEmail,
                                           !.emailChangeVerificationStep = "sms_pending"]
        ELSE accounts' = accounts

\* C12: requestEmailChange succeeds only from step 'none', for an address that
\* differs from the current email and is bound to no other account; on
\* success it sets pendingEmail and step = 'sms_pending' and nothing else; a
\* failed call leaves the account unchanged.
C12_RequestOnlyFromNone == [][C12_RequestStep]_vars

WrongStepForSms == "No email change request pending SMS verification"

C13_SmsStep ==
    (Called("verifyEmailChangeSms") /\ \E a \in accounts : a.phoneNumber = lastOp'.phone) =>
        LET before == RowOf(accounts, lastOp'.phone)
        IN  /\ before.emailChangeVerificationStep # "sms_pending" =>
                  /\ lastOp'.status = "error"
                  /\ lastOp'.message = WrongStepForSms
                  /\ otpCodes' = otpCodes
                  /\ emailCodes' = emailCodes
                  /\ accounts' = accounts
            /\ lastOp'.status = "ok" => before.emailChangeVerificationStep = "sms_pending"

\* C13: verifyEmailChangeSms is valid only from step 'sms_pending'; at any
\* other step it fails with the precondition error, leaves the SMS OTP store
\* as it was (no entry read, counted or consumed) and the account unchanged.
C13_SmsOnlyFromSmsPending == [][C13_SmsStep]_vars

\* the call was refused at another step while a code for the phone was waiting
C13_Witness ==
    /\ lastOp.op = "verifyEmailChangeSms"
    /\ lastOp.message = WrongStepForSms
    /\ MapHas(otpCodes, lastOp.phone)
    /\ \E a \in accounts : /\ a.phoneNumber = lastOp.phone
                           /\ a.emailChangeVerificationStep = "email_pending"

AlreadyCompleted == "Email change already completed!"

C14_RepeatStep ==
    (Called("verifyEmailChangeNewEmail") /\ \E a \in accounts : a.phoneNumber = lastOp'.phone) =>
        LET before == RowOf(accounts, lastOp'.phone)
        IN  before.emailChangeVerificationStep \in {"none", "completed"} =>
               /\ lastOp'.status = "ok"
               /\ lastOp'.message = AlreadyCompleted
               /\ lastOp'.data = before.email
               /\ accounts' = accounts
               /\ otpCodes' = otpCodes
               /\ emailCodes' = emailCodes

\* C14: once an email change has completed (the step is back at 'none'),
\* every further verifyEmailChangeNewEmail call, whatever its code, returns
\* the same success carrying the account's current email, changes no account
\* field and leaves both OTP stores as they were.
C14_IdempotentAfterCompletion == [][C14_RepeatStep]_vars

\* a change has completed (verified email, the timestamp of the code sent to
\* the new address still there) and the call was answered as already done
C14_Witness ==
    /\ lastOp.op = "verifyEmailChangeNewEmail"
    /\ lastOp.message = AlreadyCompleted
    /\ \E a \in accounts :
          /\ a.emailChangeVerificationStep = "none"
          /\ a.emailVerified
          /\ a.lastEmailVerificationSent # NoDate
          /\ lastOp.data = a.email

\* the step in which the account's email becomes what pendingEmail was
EmailReplaced(before, after) ==
    /\ before.pendingEmail # Null
    /\ after.email = before.pendingEmail
    /\ after.pendingEmail = Null

C15_ProtocolStep ==
    \A before \in accounts : \A after \in accounts' :
        before.id = after.id =>
            /\ EmailReplaced(before, after) =>
                  /\ Called("verifyEmailChangeNewEmail")
                  /\ changeProof = "issued"
                  /\ before.emailChangeVerificationStep = "email_pending"
                  /\ MapHas(emailCodes, before.pendingEmail)
                  /\ ~MapHas(emailCodes', before.pendingEmail)
            /\ ~(/\ before.emailChangeVerificationStep = "none"
                 /\ after.emailChangeVerificationStep = "email_pending")
            /\ ~(/\ before.emailChangeVerificationStep = "sms_pending"
                 /\ after.emailChangeVerificationStep = "none")

\* C15: the email is replaced by pendingEmail only in a verifyEmailChangeNewEmail
\* call that approves (consumes) the email code of that pendingEmail, after,
\* since the most recent requestEmailChange, an SMS code for the phone was
\* approved and then a code was issued to that pendingEmail; the step never
\* moves none -> email_pending or sms_pending -> none.
C15_SequentialProtocol == [][C15_ProtocolStep]_vars

\* an email change has just gone through its three steps
C15_Witness ==
    /\ lastOp.op = "verifyEmailChangeNewEmail"
    /\ lastOp.message = "Email changed successfully!"
    /\ changeProof = "none"
    /\ \E a \in accounts : a.email = lastOp.data /\ a.emailVerified /\ a.pendingEmail = Null

-----------------------------------------------------------------------------
(* Properties of the finalize step of the email change (SpecFinalize) *)

\* C16: finalizing an email change is one persisted transition from
\* 'email_pending' to the new address with step 'none': no row is ever
\* persisted with step 'completed', whether or not the process stops
\* between two writes.
C16_NoPersistedCompleted ==
    \A a \in accounts : a.emailChangeVerificationStep # "completed"

-----------------------------------------------------------------------------
(* Properties of the addresses of two accounts (SpecTwo) *)

\* C17: in every reachable state no two distinct accounts have the same
\* current email with emailVerified = true.
C17_VerifiedEmailUnique ==
    \A a, b \in accounts :
        (a.id # b.id /\ a.emailVerified /\ b.emailVerified /\ a.email # Null)
            => a.email # b.email

\* the address is the current one of an account other than that of `phone`
BoundElsewhere(rows, phone, email) ==
    \E b \in rows : b.phoneNumber # phone /\ b.email = email

C20_AddEmailStep(phone, email) ==
    LET before == RowOf(accounts, phone)
        after == RowOf(accounts', phone)
    IN  IF BoundElsewhere(accounts, phone, LowerTrim(email))
        THEN /\ lastOp'.status = "error"
             /\ lastOp'.message = "Email address is already in use by another account"
             /\ accounts' = accounts
             /\ UNCHANGED <<otpCodes, emailCodes>>
        ELSE /\ lastOp'.status = "ok"
             /\ after = [before EXCEPT !.email = LowerTrim(email),
                                       !.emailVerified = FALSE,
                                       !.emailVerificationAttempts = 0,
                                       !.lastEmailVerificationSent = NoDate]
             /\ accounts' \ {after} = accounts \ {before}

\* C20: addEmail/updateEmail(email) fails with a conflict and changes nothing
\* when the email is the current email of a different account; otherwise it
\* sets email, emailVerified = false, emailVerificationAttempts = 0 and
\* lastEmailVerificationSent = null and leaves every other field, and every
\* other account, as it was.
C20_ConflictOrSet ==
    [][\A phone \in Phones, email \in Emails :
          AddEmail(phone, email) => C20_AddEmailStep(phone, email)]_vars

-----------------------------------------------------------------------------
(* Properties of login and authentication (SpecAuth) *)

\* the identity that the persisted row of `phone` gives
IdentityOf(rows, phone) ==
    LET a == RowOf(rows, phone)
    IN  [phoneNumber |-> a.phoneNumber, accountId |-> a.id, smsVerified |-> a.smsVerified,
         emailVerified |-> a.emailVerified, fullyVerified |-> a.fullyVerified,
         kycStatus |-> a.kycStatus]

C18_AuthStep ==
    (Called("authenticate") /\ lastOp'.status = "ok")
        => lastOp'.user = IdentityOf(accounts', lastOp'.token.phoneNumber)

\* C18: the identity attached to an authenticated request is the account's
\* persisted smsVerified, emailVerified, fullyVerified and kycStatus at the
\* time of the request, whatever flags the token carries; so two tokens of the
\* same account give the same identity in the same state.
C18_IdentityFromLiveState == [][C18_AuthStep]_vars

\* a request was authenticated with a token whose emailVerified flag is stale
C18_Witness ==
    /\ lastOp.op = "authenticate"
    /\ lastOp.status = "ok"
    /\ lastOp.token.emailVerified # lastOp.user.emailVerified
    /\ Cardinality(tokens) >= 2

C19_LoginStep(phoneNumber, pin) ==
    /\ lastOp'.status = "ok"
          <=> \E a \in accounts : /\ a.phoneNumber = normalizePhoneNumber(phoneNumber)
                                  /\ a.smsVerified
                                  /\ a.pin = pin
    /\ lastOp'.status = "ok" => lastOp'.data \in tokens'
    /\ UNCHANGED <<accounts, otpCodes, emailCodes>>

\* C19: login(phone, pin) succeeds and issues a token if and only if an
\* account exists for the normalized phone, its smsVerified is true and the
\* PIN is exactly the stored one; either way it leaves the accounts and both
\* OTP stores unchanged.
C19_LoginIffExactPin ==
    [][\A phoneNumber \in LoginPhones, pin \in LoginPins :
          LoginWithPin(phoneNumber, pin) => C19_LoginStep(phoneNumber, pin)]_vars

-----------------------------------------------------------------------------
(* Properties of the verification of an address (SpecVerify) *)

\* what verifyEmail(code) must do on the account of `phone`
C21_VerifyEmailStep(phone, code) ==
    LET before == RowOf(accounts, phone)
        after == RowOf(accounts', phone)
        status == verifyEmailOTP(emailCodes, before.email, code, now).res.status
    IN  (before.email # Null /\ ~before.emailVerified) =>
          IF before.emailVerificationAttempts >= 5
          THEN /\ lastOp'.status = "error"
               /\ UNCHANGED <<accounts, emailCodes, otpCodes>>
          ELSE /\ status = "approved" =>
                     /\ after.emailVerified
                     /\ after.emailVerificationAttempts = 0
                     /\ after.lastEmailVerificationSent = NoDate
               /\ status = "failed" =>
                     /\ after.emailVerificationAttempts = before.emailVerificationAttempts + 1
                     /\ ~after.emailVerified

\* C21: verifyEmail(code) is refused without consulting the OTP store when
\* emailVerificationAttempts >= 5; otherwise 'approved' sets emailVerified,
\* resets the attempts to 0 and the last send to null, and 'failed' adds
\* exactly 1 to the attempts and leaves emailVerified false.
C21_AttemptsGateAndCount ==
    [][\A code \in AcctSubmitted :
          VerifyEmail(AcctPhone, code) => C21_VerifyEmailStep(AcctPhone, code)]_vars

\* a verifyEmail was refused at five attempts, with a code waiting in the store
C21_Witness ==
    /\ lastOp.op = "verifyEmail"
    /\ lastOp.message = "Too many email verification attempts. Please request a new code."
    /\ \E a \in accounts : a.emailVerificationAttempts = 5 /\ MapHas(emailCodes, a.email)

\* C22: after a successful sendEmailVerification the account's
\* emailVerificationAttempts is 0, so that an account that reached five failed
\* attempts can verify again once it has requested a new code.
C22_SendResetsAttempts ==
    [][Succeeded("sendEmailVerification")
          => RowOf(accounts', lastOp'.phone).emailVerificationAttempts = 0]_vars

-----------------------------------------------------------------------------
(* Properties of the responses to code requests (Spec) *)

\* the last successful send recorded on the row is less than a minute old
CoolingDown(lastSent) == lastSent # NoDate /\ now - lastSent[1] < CooldownMs

C23_CooldownStep ==
    /\ (Called("sendVerificationCode")
          /\ \E a \in accounts : /\ a.phoneNumber = lastOp'.phone
                                 /\ CoolingDown(a.lastVerificationSent))
        => /\ sendVerificationCodeStatus(lastOp') = 429
           /\ otpCodes' = otpCodes
    /\ (Called("sendEmailVerification")
          /\ \E a \in accounts : /\ a.phoneNumber = lastOp'.phone
                                 /\ a.email # Null /\ ~a.emailVerified
                                 /\ CoolingDown(a.lastEmailVerificationSent))
        => /\ sendEmailVerificationStatus(lastOp') = 429
           /\ emailCodes' = emailCodes

\* C23: a code request made within 60 s of the account's previous successful
\* send, on either channel, is answered with HTTP 429 and issues no new OTP
\* entry.
C23_CooldownIs429 == [][C23_CooldownStep]_vars

-----------------------------------------------------------------------------
(* Properties of the cleanup interval (SpecApp) *)

\* the store of the request path holds an entry for `to` that has expired
ExpiredEntry(store, to) == MapHas(store, to) /\ _isCodeExpired(store[to], now)

\* C24: the periodic sweep works on the store that the request path uses:
\* every expired entry that a request issued is eventually removed, also
\* when no verify is ever called for its recipient.
C24_SweepRemovesExpired ==
    /\ \A p \in Phones : ExpiredEntry(otpCodes, p) ~> ~ExpiredEntry(otpCodes, p)
    /\ \A e \in Emails : ExpiredEntry(emailCodes, e) ~> ~ExpiredEntry(emailCodes, e)

-----------------------------------------------------------------------------
(* Properties of the retries of a delivery (SpecRetry) *)

\* C25: a delivery is attempted at most 3 times and then ends with success or
\* failure; an attempt is made again only after a transient failure, and a
\* permanent rejection is reported after the first attempt, without retry.
C25_RetryOnlyTransient ==
    lastOp.op = "executeWithRetry" =>
        /\ lastOp.res.attempts \in 1 .. 3
        /\ lastOp.res.status \in {"ok", "error"}
        /\ \A k \in 1 .. (lastOp.res.attempts - 1) : lastOp.outcomes[k] \in TransientFailures
        /\ lastOp.outcomes[1] \in PermanentFailures
              => lastOp.res.attempts = 1 /\ lastOp.res.status = "error"

-----------------------------------------------------------------------------
(* Order of the checks of verify (SpecOtp) *)

C26_ExhaustedStep ==
    VerifyStep =>
        LET r == lastOp'.to
            c == lastOp'.code
        IN  (Live(r) /\ WellFormed(c) /\ Trim(c) = Store[r].code
                /\ Store[r].attempts >= MaxOtpAttempts) =>
               /\ lastOp'.res = Result("failed", "Too many failed attempts")
               /\ ~MapHas(Store', r)

\* C26: the attempts are checked before the code is compared: when the
\* unexpired entry of R has attempts >= 3, verify(R, correctCode) returns
\* 'failed' (too many attempts) and deletes the entry instead of approving.
C26_ExhaustionBeforeEquality == [][C26_ExhaustedStep]_vars

\* the correct code was submitted for an exhausted entry and was refused
C26_Witness ==
    /\ lastOp.op = "verifyOTP"
    /\ lastOp.correct
    /\ lastOp.res = Result("failed", "Too many failed attempts")
    /\ ~MapHas(Store, lastOp.to)

-----------------------------------------------------------------------------
(* Expiry of the deduplication entries (SpecDedup) *)

\* the entry of key k has outlived its TTL
Lapsed(k) == MapHas(activeRequests, k) /\ now > activeRequests[k].expiresAt

C27_ArriveStep(k) ==
    /\ Lapsed(k) =>
          /\ lastOp'.admitted
          /\ activeRequests'[k] = [timestamp |-> now, expiresAt |-> now + DedupTtlMs]
    /\ (MapHas(activeRequests, k) /\ ~Lapsed(k)) =>
          /\ ~lastOp'.admitted
          /\ lastOp'.response.status = 429
          /\ activeRequests' = activeRequests

C27_SweepStep ==
    /\ DOMAIN activeRequests' = {k \in DOMAIN activeRequests : ~Lapsed(k)}
    /\ \A k \in DOMAIN activeRequests' : activeRequests'[k] = activeRequests[k]

\* C27: an entry blocks only while unexpired: a request whose key has an entry
\* with now > expiresAt is admitted and registers the key again with the expiry
\* now + ttl, an entry with now <= expiresAt rejects the request, and the sweep
\* removes exactly the entries with now > expiresAt.
C27_BlocksOnlyWhileUnexpired ==
    [][/\ \A k \in DedupKeys : Arrive(k) => C27_ArriveStep(k)
       /\ DedupSweep => C27_SweepStep]_vars

\* a request was admitted although an earlier request with its key never
\* signalled completion: the TTL of that one had lapsed
C27_Witness ==
    /\ lastOp.op = "deduplicate"
    /\ lastOp.admitted
    /\ \E r \in inflight :
          /\ r.key = lastOp.key
          /\ now > r.expiresAt
    /\ activeRequests[lastOp.key].expiresAt = now + DedupTtlMs

-----------------------------------------------------------------------------
(* Overlapping verifications of one recipient (SpecRace) *)

\* the calls that have been answered by verifyEmailOTP and have not yet saved
Answered == {r \in verifying : r.pc = "answered"}

InvalidCode == Result("failed", "Invalid verification code")

\* the attempts of the entry that the call read
SeenAttempts(r) == (CHOOSE x \in r.storedData : TRUE).attempts

C28_Pairs ==
    \A r1, r2 \in Answered :
        (r1.id # r2.id /\ r1.account.email = r2.account.email) =>
            /\ ~(r1.verification.status = "approved" /\ r2.verification.status = "approved")
            /\ (r1.verification.status = "approved" /\ Trim(r2.code) = Trim(r1.code)) =>
                  r2.verification = Result("expired", "No verification code found or expired")
            /\ (r1.verification = InvalidCode /\ r2.verification = InvalidCode) =>
                  /\ SeenAttempts(r1) # SeenAttempts(r2)
                  /\ MapHas(emailCodes, r1.account.email) =>
                        /\ emailCodes[r1.account.email].attempts > SeenAttempts(r1)
                        /\ emailCodes[r1.account.email].attempts > SeenAttempts(r2)

C28_CheckStep(id) ==
    \A r \in verifying :
        LET e == r.account.email
        IN  (/\ r.id = id
             /\ MapHas(emailCodes, e)
             /\ ~_isCodeExpired(emailCodes[e], now)
             /\ emailCodes[e].attempts < MaxOtpAttempts
             /\ Trim(r.code) # emailCodes[e].code) =>
               /\ \E a \in Answered' : a.id = id /\ a.verification = InvalidCode
               /\ emailCodes'[e] = [emailCodes[e] EXCEPT !.attempts = emailCodes[e].attempts + 1]
               /\ \A o \in Answered :
                     (o.account.email = e /\ o.verification = InvalidCode) =>
                        emailCodes'[e].attempts >= SeenAttempts(o) + 2

\* C28: the check and the change of verify are one piece for each recipient.
\* Of two calls under way together with the correct code, at most one is
\* approved and the other is answered 'expired' (no code found); a call with a
\* wrong code adds exactly 1 to the attempts as they are when it runs, so that
\* two calls under way together with wrong codes read different attempts and
\* leave the entry 2 above what the first of them read.  (Checked on the calls
\* of verifyEmail, whose verifyEmailOTP has the shape of verifyOTP.)
C28_VerifyAtomic ==
    /\ []C28_Pairs
    /\ [][\A id \in VerifyIds : VerifyEmailCheck(id) => C28_CheckStep(id)]_vars

\* two calls are under way with the correct code: one approved, one expired
C28_Witness ==
    \E r1, r2 \in Answered :
        /\ r1.id # r2.id
        /\ r1.code = r2.code
        /\ r1.verification.status = "approved"
        /\ r2.verification.status = "expired"

-----------------------------------------------------------------------------
(* The attempts of the account under overlapping verifyEmail calls (SpecRace) *)

\* the persisted row of the account of call r
PersistedRow(rows, r) == CHOOSE a \in rows : a.id = r.account.id

C29_SaveStep(id) ==
    \A r \in verifying :
        (r.id = id /\ r.verification.status # "approved") =>
            LET row == PersistedRow(accounts, r)
                after == PersistedRow(accounts', r)
            IN  IF row.emailVerified
                THEN after = row
                ELSE after = [row EXCEPT !.emailVerificationAttempts =
                                             row.emailVerificationAttempts + 1]

\* C29: the counting of attempts on the account is atomic.  The save of a failed
\* verifyEmail adds exactly 1 to emailVerificationAttempts as persisted at that
\* moment, so that two overlapping calls with different wrong codes leave it 2
\* higher; and it leaves alone a row that an overlapping approval has set to
\* emailVerified = true, attempts = 0.
C29_AttemptsAtomic == [][\A id \in VerifyIds : VerifyEmailSave(id) => C29_SaveStep(id)]_vars

-----------------------------------------------------------------------------
(* The range of the attempt counters (SpecInterleave) *)

\* C30: in every persisted row emailVerificationAttempts and
\* verificationAttempts are within 0..5, whatever the order and the overlap of
\* verifyEmail, sendEmailVerification, addEmail and the operations of the
\* change of address.
C30_AttemptsInRange ==
    \A a \in accounts :
        /\ a.emailVerificationAttempts \in 0 .. MaxEmailAttempts
        /\ a.verificationAttempts \in 0 .. MaxEmailAttempts

\* a failed call has brought the row to 5 while another call that had loaded 4
\* is still to save its own count
C30_Witness ==
    /\ lastOp.op = "verifyEmail"
    /\ lastOp.status = "error"
    /\ \E a \in accounts : a.emailVerificationAttempts = MaxEmailAttempts
    /\ \E r \in verifying :
          /\ r.pc = "answered"
          /\ r.verification.status # "approved"
          /\ r.account.emailVerificationAttempts = MaxEmailAttempts - 1

-----------------------------------------------------------------------------
(* The SMS step of the email change (Spec) *)

C31_SmsStep(code, mailCode, fails) ==
    \A before \in accounts :
        (/\ before.phoneNumber = AcctPhone
         /\ before.emailChangeVerificationStep = "sms_pending") =>
            LET after == RowOf(accounts', AcctPhone)
                approved == verifyOTP(otpCodes, AcctPhone, code, now).res.status = "approved"
            IN  IF approved
                THEN /\ after.emailChangeVerificationStep = "email_pending"
                     /\ IssuedNow(emailCodes', before.pendingEmail)
                     /\ emailCodes'[before.pendingEmail].code = mailCode
                     /\ \/ lastOp'.message = "operation with retry failed"
                        \/ /\ lastOp'.status = "ok"
                           /\ after = [before EXCEPT
                                         !.emailChangeVerificationStep = "email_pending",
                                         !.lastEmailVerificationSent = Date(now),
                                         !.fullyVerified = after.fullyVerified]
                ELSE /\ lastOp'.status = "error"
                     /\ after = before
                     /\ emailCodes' = emailCodes

-----------------------------------------------------------------------------
(* The KYC status and the verification flags (SpecKyc) *)

C32_KycStep(status) ==
    \A before \in accounts :
        LET after == RowOf(accounts', before.phoneNumber)
        IN  IF status \in ValidKycStatuses
            THEN /\ after.kycStatus = status
                 /\ after = [before EXCEPT !.kycStatus = status,
                                           !.kycSubmittedAt = after.kycSubmittedAt]
            ELSE /\ lastOp'.status = "error"
                 /\ after = before

\* C32: kycStatus is an axis of its own.  updateKycStatus(status) with a valid
\* status, 'approved' included, changes kycStatus (and kycSubmittedAt) and
\* nothing else: smsVerified, emailVerified and fullyVerified stay as they
\* were; with an invalid status it is refused and the row is unchanged.
C32_KycIsIndependent ==
    [][\A s \in KycStatuses, d \in BOOLEAN :
          UpdateKycStatus(AcctPhone, s, d) => C32_KycStep(s)]_vars

-----------------------------------------------------------------------------
(* The SMS verification of an account (Spec) *)

C33_KeepStep ==
    \A before \in accounts :
        before.smsVerified =>
            \E after \in accounts' : after.id = before.id /\ after.smsVerified

\* C33: SMS verification is one-way.  An account whose smsVerified is true is
\* there with smsVerified true after every step, whichever operation on the
\* account the step is.
C33_SmsVerifiedStays == [][C33_KeepStep]_vars

\* the account was created SMS-verified and its address has since been verified
C33_Witness ==
    /\ lastOp.op = "verifyEmail"
    /\ lastOp.status = "ok"
    /\ \E a \in accounts : a.smsVerified /\ a.emailVerified

-----------------------------------------------------------------------------
(* The answers of authenticate and of the capability gates (SpecGate) *)

\* the header carries a token that verifies, of an account with a verified phone
Authentic(header) ==
    /\ header # NoHeader
    /\ header \in tokens
    /\ Seconds(now) < header.exp
    /\ \E a \in accounts : a.phoneNumber = header.phoneNumber /\ a.smsVerified

C34_AuthenticateStep(header) ==
    /\ IF Authentic(header)
       THEN lastOp'.response.next /\ lastOp'.user # NoUser
       ELSE /\ ~lastOp'.response.next
            /\ lastOp'.response.statusCode = 401
            /\ lastOp'.user = NoUser
    /\ UNCHANGED <<accounts, otpCodes, emailCodes, tokens>>

C34_GateStep(gate, user) ==
    /\ IF user = NoUser
       THEN ~lastOp'.response.next /\ lastOp'.response.statusCode = 401
       ELSE IF ~user[GateFlags[gate]]
       THEN ~lastOp'.response.next /\ lastOp'.response.statusCode = 403
       ELSE lastOp'.response.next
    /\ UNCHANGED <<accounts, otpCodes, emailCodes, tokens>>

\* C34: authenticate answers 401 when the credential is missing, invalid or
\* expired, when there is no account for the phone in it, or when smsVerified
\* of the account is false, and passes the request on otherwise; each gate
\* answers 401 when no identity is attached, 403 exactly when the identity
\* lacks the flag of the gate, and passes the request on otherwise; none of
\* them changes the accounts, the stores or the tokens.
C34_AuthStatusCodes ==
    [][/\ \A header \in AuthTokens \cup {NoHeader} :
             AuthenticateRequest(header) => C34_AuthenticateStep(header)
       /\ \A gate \in DOMAIN GateFlags, user \in GateUsers :
             RequireVerification(gate, user) => C34_GateStep(gate, user)]_vars

\* an identity with a verified phone was refused by the gate of the address
C34_Witness ==
    /\ lastOp.op = "requireEmailVerification"
    /\ lastOp.user # NoUser
    /\ lastOp.user.smsVerified
    /\ lastOp.response.statusCode = 403

-----------------------------------------------------------------------------
(* The welcome message of verifyEmail (SpecWelcome) *)

C35_ApprovedStep(code) ==
    LET account == RowOf(accounts, Phone1)
        approved == /\ _validateEmailForVerification(account)
                    /\ _validateEmailAttempts(account)
                    /\ verifyEmailOTP(emailCodes, account.email, code, now).res.status = "approved"
    IN  approved =>
            /\ lastOp'.status = "ok"
            /\ RowOf(accounts', Phone1).emailVerified
            /\ RowOf(accounts', Phone1).emailVerificationAttempts = 0

\* C35: when the code given to verifyEmail is approved, verifyEmail succeeds
\* and the account has emailVerified = true and emailVerificationAttempts = 0,
\* whether the welcome message could be sent or not.
C35_WelcomeFailureIsHarmless ==
    [][\A code \in AcctSubmitted, fails \in {0, SendOtpRetries} :
          VerifyEmailWelcome(AcctPhone, code, fails) => C35_ApprovedStep(code)]_vars

\* an approved verification whose welcome message could not be sent
C35_Witness ==
    /\ lastOp.op = "verifyEmail"
    /\ lastOp.welcome = "failed"
    /\ lastOp.status = "ok"
    /\ RowOf(accounts, Phone1).emailVerified

-----------------------------------------------------------------------------
(* The sweep of the OTP stores (SpecOtp) *)

C36_SweepStep(store, swept, cleaned) ==
    LET expired == {k \in DOMAIN store : now > store[k].expiresAt}
    IN  /\ DOMAIN swept = (DOMAIN store) \ expired
        /\ \A k \in DOMAIN swept : swept[k] = store[k]
        /\ cleaned = Cardinality(expired)
        /\ now' = now
        /\ cleanupExpiredCodes(swept, now').store = swept
        /\ cleanupExpiredCodes(swept, now').cleaned = 0

\* C36: cleanupExpiredCodes of either store removes exactly the entries with
\* now > expiresAt, leaves every other entry as it was and returns the number
\* of entries removed; run again at the same instant it removes nothing and
\* returns 0.
C36_CleanupRemovesExactlyExpired ==
    [][/\ SmsCleanup => C36_SweepStep(otpCodes, otpCodes', lastOp'.cleaned)
       /\ EmailCleanup => C36_SweepStep(emailCodes, emailCodes', lastOp'.cleaned)]_vars

\* a sweep that removed an entry and kept another
C36_Witness ==
    /\ lastOp.op = "cleanupExpiredCodes"
    /\ lastOp.cleaned >= 1
    /\ \/ channel = "sms" /\ DOMAIN otpCodes # {}
       \/ channel = "email" /\ DOMAIN emailCodes # {}

-----------------------------------------------------------------------------
(* What a rejected request does to the gate (SpecDedup) *)

\* the key has an entry that has not expired: the request is a duplicate
Blocked(k) == MapHas(activeRequests, k) /\ ~(now > activeRequests[k].expiresAt)

C37_RejectedStep(k) ==
    Blocked(k) =>
        /\ lastOp'.response.status = 429
        /\ requestCounts' =
              MapSet(requestCounts, k, (IF MapHas(requestCounts, k) THEN requestCounts[k] ELSE 0) + 1)
        /\ activeRequests' = activeRequests
        /\ inflight' = inflight

C37_CountedKeysAreRegistered == DOMAIN requestCounts \subseteq DOMAIN activeRequests

\* C37: a request rejected by the gate adds one to the retry counter of its
\* key and does nothing else: the entry of the key stays as it is (same
\* expiresAt) and no cleanup listener is attached for it, so the end of its
\* 429 response releases nothing; and in every state each key with a retry
\* counter has a registered entry.
C37_RejectionOnlyCounts ==
    /\ []C37_CountedKeysAreRegistered
    /\ [][\A k \in DedupKeys : Arrive(k) => C37_RejectedStep(k)]_vars

\* a key rejected twice, still registered
C37_Witness ==
    /\ lastOp.op = "deduplicate"
    /\ ~lastOp.admitted
    /\ MapHas(requestCounts, lastOp.key)
    /\ requestCounts[lastOp.key] = 2
    /\ MapHas(activeRequests, lastOp.key)

-----------------------------------------------------------------------------
(* The step of an email change and the pending address (Spec) *)

-----------------------------------------------------------------------------
(* What an operation that fails leaves behind (Spec) *)

\* the rows are those of before, the count of failed email attempts apart
SameButAttempts(before, after) ==
    /\ \A a \in before : \E b \in after :
          b = [a EXCEPT !.emailVerificationAttempts = b.emailVerificationAttempts]
    /\ \A b \in after : \E a \in before :
          b = [a EXCEPT !.emailVerificationAttempts = b.emailVerificationAttempts]

\* C39: an operation of the account controller that returns an error leaves
\* the persisted accounts as they were (the count of failed email attempts
\* apart, which a refused code increments): a failed verifyEmailChangeSms
\* leaves emailChangeVerificationStep and lastEmailVerificationSent alone, a
\* failed sendVerificationCode or sendEmailVerification leaves the cooldown
\* timestamps alone.
C39_ErrorLeavesAccountUnchanged ==
    [][(calls' = calls + 1 /\ lastOp'.status = "error")
          => SameButAttempts(accounts, accounts')]_vars

-----------------------------------------------------------------------------
(* Replacing a verified address (SpecReplace) *)

\* C40: the verified address a@x.com of the account is replaced by another
\* verified address only after an SMS code of the phone of the account was
\* approved: in every state in which the address of the account is another
\* one and is verified, such an approval has taken place since a@x.com was
\* the verified address.  (The approval the claim asks for lies between the
\* request to change and the new address becoming verified, hence after the
\* initial state.)
C40_ReplacementNeedsSmsApproval ==
    \A a \in accounts :
        (a.emailVerified /\ a.email # "a@x.com") => a.phoneNumber \in approvedPhones

=============================================================================
